---- MODULE Spec2Model ----
(***************************************************************************)
(* Field evaluation and broadcasting engine of magpylib: getBH_level2      *)
(* (src/magpylib/_lib/fields/field_wrap_BH_level2.py) over a heap of       *)
(* sources and sensors with motion paths.                                   *)
(*                                                                         *)
(* Arrays are modelled the way numpy stores them: a flat, row-major        *)
(* sequence of 3-vectors together with the index arithmetic of the code.   *)
(* Orientations are quaternions (x, y, z, w) with integer components; the  *)
(* rotation of a vector is computed exactly.                               *)
(***************************************************************************)
EXTENDS Integers, Sequences, FiniteSets, TLC

\* ------------------------------------------------------------------ bounds
\* longest motion path of an object
MaxPath == 3
\* longest top-level sources list
MaxTop == 2
\* most flattened sources of one call
MaxFlat == 3

\* ------------------------------------------------------------ vectors
VAdd(a, b) == <<a[1] + b[1], a[2] + b[2], a[3] + b[3]>>

VSub(a, b) == <<a[1] - b[1], a[2] - b[2], a[3] - b[3]>>

Zero3 == <<0, 0, 0>>

\* the content of a freshly allocated np.empty row before it is written
Unwritten == <<-99, -99, -99>>

RECURSIVE SumVecs(_)
SumVecs(s) ==
    IF s = <<>> THEN Zero3 ELSE VAdd(Head(s), SumVecs(Tail(s)))

RECURSIVE Prod(_)
Prod(s) ==
    IF s = <<>> THEN 1 ELSE Head(s) * Prod(Tail(s))

RECURSIVE Concat(_)
Concat(ss) ==
    IF ss = <<>> THEN <<>> ELSE Head(ss) \o Concat(Tail(ss))

Rep(x, n) == [i \in 1..n |-> x]

\* ------------------------------------------------------------ rotations
\* scipy Rotation, stored as a quaternion (x, y, z, w)
unitQ == <<0, 0, 0, 1>>

Rz90 == <<0, 0, 1, 1>>

Rx90 == <<1, 0, 0, 1>>

Abs(x) == IF x < 0 THEN -x ELSE x

RECURSIVE Gcd(_, _)
Gcd(a, b) ==
    IF b = 0 THEN a ELSE Gcd(b, a % b)

\* Rotation.from_quat normalises the quaternion it is given
from_quat(q) ==
    LET g == Gcd(Gcd(Abs(q[1]), Abs(q[2])), Gcd(Abs(q[3]), Abs(q[4])))
    IN  IF g = 0 THEN q
        ELSE <<q[1] \div g, q[2] \div g, q[3] \div g, q[4] \div g>>

as_quat(r) == r

\* Rotation.__mul__: the rotation q2 followed by q1
Compose(q1, q2) ==
    << q1[4] * q2[1] + q2[4] * q1[1] + (q1[2] * q2[3] - q1[3] * q2[2]),
       q1[4] * q2[2] + q2[4] * q1[2] + (q1[3] * q2[1] - q1[1] * q2[3]),
       q1[4] * q2[3] + q2[4] * q1[3] + (q1[1] * q2[2] - q1[2] * q2[1]),
       q1[4] * q2[4] - (q1[1] * q2[1] + q1[2] * q2[2] + q1[3] * q2[3]) >>

RotApply_noNorm(q, v) ==
    LET x == q[1]
        y == q[2]
        z == q[3]
        w == q[4]
    IN  << (w * w + x * x - y * y - z * z) * v[1]
             + 2 * (x * y - w * z) * v[2] + 2 * (x * z + w * y) * v[3],
           2 * (x * y + w * z) * v[1]
             + (w * w - x * x + y * y - z * z) * v[2] + 2 * (y * z - w * x) * v[3],
           2 * (x * z - w * y) * v[1]
             + 2 * (y * z + w * x) * v[2] + (w * w - x * x - y * y + z * z) * v[3] >>

\* Rotation.apply: v -> q v q^-1
RotApply(q, v) ==
    LET x == q[1]
        y == q[2]
        z == q[3]
        w == q[4]
        n == x * x + y * y + z * z + w * w
    IN  << ((w * w + x * x - y * y - z * z) * v[1]
             + 2 * (x * y - w * z) * v[2]
             + 2 * (x * z + w * y) * v[3]) \div n,
           (2 * (x * y + w * z) * v[1]
             + (w * w - x * x + y * y - z * z) * v[2]
             + 2 * (y * z - w * x) * v[3]) \div n,
           (2 * (x * z - w * y) * v[1]
             + 2 * (y * z + w * x) * v[2]
             + (w * w - x * x - y * y + z * z) * v[3]) \div n >>

\* Rotation.inv
RotInv(q) == <<-q[1], -q[2], -q[3], q[4]>>

\* ------------------------------------------------------------ the scene
Src == {"s1", "s2", "s3"}

Sens == {"k1", "k2"}

\* Sensors that getBH_level2 constructs for bare positions, per call
TmpIds(p) == IF p = 1 THEN <<"t1", "t2">> ELSE <<"u1", "u2">>

Procs == {1, 2}

AllIds == Src \cup Sens \cup {"t1", "t2", "u1", "u2"}

Families == <<"Box", "Cylinder", "Sphere", "Dipole">>

NoPix == [shape |-> <<>>, pts |-> <<>>]

\* pos_pix of the two sensors: shape (1,2,3)
PixOf(o) ==
    IF o = "k1" THEN [shape |-> <<1, 2>>, pts |-> << <<0, 0, 0>>, <<1, 0, 0>> >>]
    ELSE IF o = "k2" THEN [shape |-> <<1, 2>>, pts |-> << <<0, 1, 0>>, <<0, 0, 1>> >>]
    ELSE NoPix

\* bare observer positions a caller passes: shapes (3,), (1,1,3) and (1,2,3)
BareP == [shape |-> <<>>, pts |-> << <<1, 0, 1>> >>]

BareU == [shape |-> <<1, 1>>, pts |-> << <<0, 2, 1>> >>]

BareQ == [shape |-> <<1, 2>>, pts |-> << <<2, 1, 0>>, <<1, 1, 1>> >>]

\* magnetization / moment of a source
ExcOf(o) ==
    IF o = "s1" THEN <<0, 0, 1>>
    ELSE IF o = "s2" THEN <<1, 0, 0>>
    ELSE <<0, 1, 1>>

\* the path an object has after j - 1 move/rotate steps
PosAt(o, j) ==
    IF o = "s1" THEN <<j, 0, 0>>
    ELSE IF o = "s2" THEN <<0, j, 1>>
    ELSE IF o = "s3" THEN <<1, 1, 0>>
    ELSE IF o = "k1" THEN <<2, 0, j>>
    ELSE <<j, 2, 0>>

RotAt(o, j) ==
    IF o = "s1" THEN Rz90
    ELSE IF o = "s2" THEN (IF j % 2 = 1 THEN unitQ ELSE Rx90)
    ELSE IF o = "s3" THEN unitQ
    ELSE IF o = "k1" THEN (IF j = 1 THEN unitQ ELSE Rz90)
    ELSE Rx90

\* the classes and geometries the three sources are constructed with
Typings ==
    { [s1 |-> [kind |-> "Box", dim |-> 1],
       s2 |-> [kind |-> "Cylinder", dim |-> 2],
       s3 |-> [kind |-> "Sphere", dim |-> 1]],
      [s1 |-> [kind |-> "Dipole", dim |-> 1],
       s2 |-> [kind |-> "Box", dim |-> 2],
       s3 |-> [kind |-> "Dipole", dim |-> 1]],
      [s1 |-> [kind |-> "Sphere", dim |-> 2],
       s2 |-> [kind |-> "Other", dim |-> 1],
       s3 |-> [kind |-> "Box", dim |-> 1]],
      [s1 |-> [kind |-> "Cylinder", dim |-> 1],
       s2 |-> [kind |-> "Cylinder", dim |-> 0],
       s3 |-> [kind |-> "Dipole", dim |-> 1]] }

FreeObj == [kind |-> "Free", dim |-> 0, pos |-> <<>>, rot |-> <<>>, pix |-> NoPix]

MkObj(kind, dim, o, len) ==
    [kind |-> kind, dim |-> dim,
     pos |-> [j \in 1..len |-> PosAt(o, j)],
     rot |-> [j \in 1..len |-> RotAt(o, j)],
     pix |-> PixOf(o)]

\* Sensor(pos_pix=...): a static sensor at the origin with unit orientation
NewSensor(pix) ==
    [kind |-> "Sensor", dim |-> 0, pos |-> <<Zero3>>, rot |-> <<unitQ>>, pix |-> pix]

\* ------------------------------------------------------------ call inputs
\* a top-level entry: an elementary source, or a Collection with its sources
Elem(s) == [col |-> FALSE, ids |-> <<s>>]

Coll(ids) == [col |-> TRUE, ids |-> ids]

\* Collection.sources lists hold no duplicates (check_duplicates)
CollMembers ==
    { <<>>, <<"s1">>, <<"s1", "s2">>, <<"s3", "s2">>, <<"s1", "s2", "s3">> }

Entries == {Elem(s) : s \in Src} \cup {Coll(c) : c \in CollMembers}

RECURSIVE FlatLen(_)
FlatLen(items) ==
    IF items = <<>> THEN 0 ELSE Len(Head(items).ids) + FlatLen(Tail(items))

EntryLists ==
    UNION { {l \in [1..n -> Entries] : FlatLen(l) <= MaxFlat} : n \in 1..MaxTop }

\* sources argument: one source or Collection, or a list of them
SourceInputs ==
    {[isList |-> FALSE, items |-> <<e>>] : e \in Entries}
        \cup {[isList |-> TRUE, items |-> l] : l \in EntryLists}

\* an observer item: a Sensor object or a bare position array
SensItem(k) == [sensor |-> TRUE, id |-> k, arr |-> NoPix]

BareItem(a) == [sensor |-> FALSE, id |-> "", arr |-> a]

\* observers argument: "sensor" (one Sensor), "array" (tuple or ndarray),
\* or "list"
ObserverInputs ==
    { [form |-> "sensor", items |-> <<SensItem("k1")>>],
      [form |-> "sensor", items |-> <<SensItem("k2")>>],
      [form |-> "array", items |-> <<BareItem(BareU)>>],
      [form |-> "list", items |-> <<SensItem("k1"), SensItem("k2")>>],
      [form |-> "list", items |-> <<SensItem("k2"), BareItem(BareQ)>>],
      [form |-> "list", items |-> <<SensItem("k1"), BareItem(BareP)>>],
      [form |-> "list", items |-> <<BareItem(BareP), BareItem(BareP)>>] }

SeqRange(s) == {s[i] : i \in DOMAIN s}

Participants(inp) ==
    UNION {SeqRange(e.ids) : e \in SeqRange(inp.sources.items)}
        \cup {it.id : it \in {x \in SeqRange(inp.observers.items) : x.sensor}}


\* Scenes with every combination of path lengths, for a few argument lists
PathSources ==
    { [isList |-> FALSE, items |-> <<Elem("s1")>>],
      [isList |-> TRUE, items |-> <<Elem("s1"), Elem("s2")>>],
      [isList |-> TRUE, items |-> <<Elem("s1"), Elem("s1")>>],
      [isList |-> FALSE, items |-> <<Coll(<<"s1", "s2">>)>>],
      [isList |-> TRUE, items |-> <<Coll(<<"s1", "s2">>), Elem("s3")>>],
      [isList |-> TRUE, items |-> <<Elem("s2"), Coll(<<"s2", "s3">>)>>] }

PathObservers ==
    { [form |-> "sensor", items |-> <<SensItem("k1")>>],
      [form |-> "array", items |-> <<BareItem(BareU)>>],
      [form |-> "list", items |-> <<SensItem("k1"), SensItem("k2")>>],
      [form |-> "list", items |-> <<SensItem("k1"), BareItem(BareP)>>] }

PathScenes ==
    UNION { { [ty |-> ty, inp |-> inp, len |-> len] :
                len \in [Participants(inp) -> 1..MaxPath] } :
            ty \in Typings,
            inp \in [sources : PathSources, observers : PathObservers] }

\* Scenes with every argument list, for a few combinations of path lengths:
\* all static; all moved once; s1 and k1 moved once; the sensors moved twice
LenPatterns(P) ==
    { [o \in P |-> 1],
      [o \in P |-> 2],
      [o \in P |-> IF o \in {"s1", "k1"} THEN 2 ELSE 1],
      [o \in P |-> IF o \in Sens THEN 3 ELSE 1] }

FieldScenes ==
    UNION { { [ty |-> ty, inp |-> inp, len |-> len] :
                len \in LenPatterns(Participants(inp)) } :
            ty \in Typings,
            inp \in [sources : SourceInputs, observers : ObserverInputs] }

Scenes == PathScenes \cup FieldScenes

\* ------------------------------------------------------------ Collections
\* class Collection (magpylib3): an object holds a reference _sources to a
\* Python list; lists are values in a store, so that two references to one
\* list see each other's in-place changes.
ColIds == {"cA", "cB"}

ListIds == 1..3

\* no Collection constructed
NoCols ==
    [ref |-> [c \in ColIds |-> 0],
     lists |-> [l \in ListIds |-> <<>>],
     ret |-> [op |-> "none", c |-> "", args |-> <<>>, before |-> <<>>,
              raised |-> FALSE, val |-> ""],
     log |-> <<>>,
     moves |-> 0]

\* ------------------------------------------------------------ magnets
\* no magnet constructed
NoMag ==
    [pc |-> "none", kind |-> "", position |-> Zero3, angle |-> 0, axis |-> Zero3,
     magnetization |-> Zero3, dimension |-> 0, made |-> <<>>,
     pos |-> Zero3, B |-> Zero3, calls |-> 0]

\* ------------------------------------------------------------ display
\* keyword arguments of show that are not row, col, output, sumup, pixel_agg
KwKeys == {"backend", "zoom"}

NoKwargs == [k \in KwKeys |-> "unset"]

\* DisplayContext.__init__ (lines 125-130) and the caller outside any block
NoDisp ==
    [ctx |-> [isrunning |-> FALSE, objects |-> <<>>, objects_from_ctx |-> <<>>,
              kwargs |-> NoKwargs],
     blocks |-> <<>>, renders |-> <<>>,
     ret |-> [op |-> "none", val |-> "", raised |-> FALSE],
     last |-> [objects |-> <<>>, rco |-> "", kwargs |-> NoKwargs, bodyRaised |-> FALSE],
     ops |-> 0]

\* ------------------------------------------------------------ state
\* objs: every source and sensor with its path (_pos, _rot);
\* call: the local variables and the position of each getBH_level2 call
\* cols: the Collection objects and the lists their _sources refer to
\* mag: a magnet of the angle-axis interface and its last getB call
\* disp: the display context ctx and the show_context blocks that are open
VARIABLES objs, call, cols, mag, disp

vars == <<objs, call, cols, mag, disp>>

NoResult == [shape |-> <<>>, data |-> <<>>]

\* the paths of all objects, as the caller sees them
Paths(heap) == [o \in AllIds |-> [pos |-> heap[o].pos, rot |-> heap[o].rot]]

IdleCall ==
    [pc |-> "idle",
     sources |-> [isList |-> TRUE, items |-> <<>>],
     observers |-> [form |-> "list", items |-> <<>>],
     src_list |-> <<>>, sensors |-> <<>>, pix_shape |-> <<>>,
     unrotated_sensors |-> <<>>, static_sensor_rot |-> <<>>,
     m |-> 0, reset_objects |-> <<>>, poso |-> <<>>, n |-> 0,
     order |-> <<>>, iii |-> 0, B |-> <<>>, Bworld |-> <<>>, Bsummed |-> <<>>,
     writes |-> <<>>, evals |-> <<>>,
     sumup |-> FALSE, squeeze |-> FALSE,
     result |-> NoResult, err |-> "none",
     orig |-> Paths([o \in AllIds |-> FreeObj]),
     base |-> Paths([o \in AllIds |-> FreeObj]), turns |-> <<>>]

\* the scene a caller has built for the arguments inp: the sources are
\* constructed as ty says, and every object the call refers to has been
\* moved len[o] - 1 steps; objects the call never sees stay as constructed
Scene(ty, inp, len) ==
    [o \in AllIds |->
        IF o \in Src
            THEN MkObj(IF o \in Participants(inp) THEN ty[o].kind ELSE "Box",
                       IF o \in Participants(inp) THEN ty[o].dim ELSE 1,
                       o, IF o \in Participants(inp) THEN len[o] ELSE 1)
        ELSE IF o \in Sens
            THEN MkObj("Sensor", 0, o, IF o \in Participants(inp) THEN len[o] ELSE 1)
        ELSE FreeObj]

Pending(inp, heap) ==
    [IdleCall EXCEPT !.pc = "start", !.sources = inp.sources,
                     !.observers = inp.observers, !.orig = Paths(heap),
                     !.base = Paths(heap)]

Init ==
    \E sc \in Scenes :
        /\ objs = Scene(sc.ty, sc.inp, sc.len)
        /\ cols = NoCols
        /\ mag = NoMag
        /\ disp = NoDisp
        /\ call = [p \in Procs |->
                      IF p = 1 THEN Pending(sc.inp, Scene(sc.ty, sc.inp, sc.len))
                      ELSE IdleCall]

\* ------------------------------------------------------------ helpers
\* magpylib._lib.utility.format_obj_input: Collections are replaced by
\* their sources, in order
format_obj_input(items) == Concat([i \in DOMAIN items |-> items[i].ids])

\* magpylib._lib.utility.all_same
all_same(s) == \A i \in DOMAIN s : s[i] = s[1]

\* magpylib._lib.utility.get_good_path_length: the longest path, or
\* "bad" (MagpylibBadUserInput) when some path is neither 1 nor that long
MaxOf(S) == CHOOSE x \in S : \A y \in S : y <= x

get_good_path_length(heap, obj_list) ==
    LET lens == {Len(heap[obj_list[i]].pos) : i \in DOMAIN obj_list}
        mx == MaxOf(lens)
    IN  IF lens \subseteq {1, mx} THEN mx ELSE -1

\* np.array of a list of equally shaped position arrays
StackArr(items) ==
    [shape |-> <<Len(items)>> \o items[1].arr.shape,
     pts |-> Concat([i \in DOMAIN items |-> items[i].arr.pts])]

\* number of bare items among items[1..i]
RECURSIVE BareBefore(_, _)
BareBefore(items, i) ==
    IF i = 0 THEN 0
    ELSE BareBefore(items, i - 1) + (IF items[i].sensor THEN 0 ELSE 1)

\* the sensors list taken from the back of the observers list
SensorsOf_reversed(p, obs) ==
    IF obs.form = "sensor" THEN <<obs.items[1].id>>
    ELSE IF obs.form = "array" THEN <<TmpIds(p)[1]>>
    ELSE IF \E i \in DOMAIN obs.items : obs.items[i].sensor
        THEN [i \in DOMAIN obs.items |->
                 IF obs.items[Len(obs.items) + 1 - i].sensor
                     THEN obs.items[Len(obs.items) + 1 - i].id
                 ELSE TmpIds(p)[BareBefore(obs.items, Len(obs.items) + 1 - i)]]
    ELSE <<TmpIds(p)[1]>>

\* lines 142-155: the sensors list; bare positions become new Sensors
SensorsOf(p, obs) ==
    IF obs.form = "sensor" THEN <<obs.items[1].id>>
    ELSE IF obs.form = "array" THEN <<TmpIds(p)[1]>>
    ELSE IF \E i \in DOMAIN obs.items : obs.items[i].sensor
        THEN [i \in DOMAIN obs.items |->
                 IF obs.items[i].sensor THEN obs.items[i].id
                 ELSE TmpIds(p)[BareBefore(obs.items, i)]]
    ELSE <<TmpIds(p)[1]>>

\* the heap after lines 142-155 have constructed those Sensors
HeapWithSensors(p, obs, heap) ==
    IF obs.form = "sensor" THEN heap
    ELSE IF obs.form = "array"
        THEN [heap EXCEPT ![TmpIds(p)[1]] = NewSensor(obs.items[1].arr)]
    ELSE IF \E i \in DOMAIN obs.items : obs.items[i].sensor
        THEN [o \in AllIds |->
                 IF \E i \in DOMAIN obs.items :
                        /\ ~obs.items[i].sensor
                        /\ TmpIds(p)[BareBefore(obs.items, i)] = o
                 THEN NewSensor(obs.items[CHOOSE i \in DOMAIN obs.items :
                                     /\ ~obs.items[i].sensor
                                     /\ TmpIds(p)[BareBefore(obs.items, i)] = o].arr)
                 ELSE heap[o]]
    ELSE [heap EXCEPT ![TmpIds(p)[1]] = NewSensor(StackArr(obs.items))]

UnrotatedSensor_first(o) == as_quat(o.rot[1]) = unitQ

\* line 170
UnrotatedSensor(o) == \A j \in DOMAIN o.rot : as_quat(o.rot[j]) = unitQ

\* lines 174-182
StaticSensorRot(o) ==
    IF Len(o.pos) = 1 THEN TRUE
    ELSE \A j \in DOMAIN o.rot : as_quat(o.rot[j]) = as_quat(o.rot[1])

Raise(c, e) == [c EXCEPT !.pc = "raised", !.err = e]

\* ------------------------------------------------------------ getBH_level2
FormatInput_noCheck(p) ==
    /\ call[p].pc = "start"
    /\ LET c == call[p]
           heap == HeapWithSensors(p, c.observers, objs)
           sensors == SensorsOf(p, c.observers)
       IN  /\ objs' = heap
           /\ UNCHANGED <<cols, mag, disp>>
           /\ call' = [call EXCEPT ![p] =
                  [c EXCEPT
                     !.src_list = format_obj_input(c.sources.items),
                     !.sensors = sensors,
                     !.pc = "pathcheck",
                     !.pix_shape = heap[sensors[1]].pix.shape,
                     !.unrotated_sensors =
                         [i \in DOMAIN sensors |-> UnrotatedSensor(heap[sensors[i]])],
                     !.static_sensor_rot =
                         [i \in DOMAIN sensors |-> StaticSensorRot(heap[sensors[i]])]]]

\* lines 137-188: format the input and perform the sensor checks
FormatInput(p) ==
    /\ call[p].pc = "start"
    /\ LET c == call[p]
           heap == HeapWithSensors(p, c.observers, objs)
           sensors == SensorsOf(p, c.observers)
           pix_shapes == [i \in DOMAIN sensors |-> heap[sensors[i]].pix.shape]
           c1 == [c EXCEPT !.src_list = format_obj_input(c.sources.items),
                           !.sensors = sensors]
       IN  /\ objs' = heap
           /\ UNCHANGED <<cols, mag, disp>>
           /\ call' = [call EXCEPT ![p] =
                  IF ~all_same(pix_shapes) THEN Raise(c1, "BadShape")
                  ELSE [c1 EXCEPT
                          !.pc = "pathcheck",
                          !.pix_shape = pix_shapes[1],
                          !.unrotated_sensors =
                              [i \in DOMAIN sensors |-> UnrotatedSensor(heap[sensors[i]])],
                          !.static_sensor_rot =
                              [i \in DOMAIN sensors |-> StaticSensorRot(heap[sensors[i]])]]]

obj_list(c) == c.src_list \o c.sensors

PathCheck_lenient(p) ==
    /\ call[p].pc = "pathcheck"
    /\ call' = [call EXCEPT ![p] =
           [call[p] EXCEPT !.pc = "tile",
               !.m = MaxOf({Len(objs[obj_list(call[p])[i]].pos) :
                              i \in DOMAIN obj_list(call[p])})]]
    /\ UNCHANGED <<objs, cols, mag, disp>>

\* line 194
PathCheck(p) ==
    /\ call[p].pc = "pathcheck"
    /\ LET c == call[p]
           m == get_good_path_length(objs, obj_list(c))
       IN  call' = [call EXCEPT ![p] =
               IF m = -1 THEN Raise(c, "BadPath")
               ELSE [c EXCEPT !.pc = "tile", !.m = m]]
    /\ UNCHANGED <<objs, cols, mag, disp>>

TilePath_keep(o, m) == o

TilePath_unitRot(o, m) ==
    [o EXCEPT !.pos = Rep(o.pos[1], m), !.rot = Rep(unitQ, m)]

\* lines 201-203: the path of a static object repeated m times
TilePath(o, m) ==
    [o EXCEPT !.pos = Rep(o.pos[1], m),
              !.rot = [j \in 1..m |-> from_quat(as_quat(o.rot[1]))]]

\* a loop that records and tiles an object at each of its occurrences
RECURSIVE TileLoop_eachOccurrence(_, _, _, _, _)
TileLoop_eachOccurrence(objs_, i, m, heap, reset) ==
    IF i > Len(objs_) THEN [heap |-> heap, reset |-> reset]
    ELSE IF Len(heap[objs_[i]].pos) = 1 \/ objs_[i] \in SeqRange(reset)
        THEN TileLoop_eachOccurrence(objs_, i + 1, m,
                      [heap EXCEPT ![objs_[i]] = TilePath(heap[objs_[i]], m)],
                      Append(reset, objs_[i]))
    ELSE TileLoop_eachOccurrence(objs_, i + 1, m, heap, reset)

\* lines 196-203, from object i of objs_ on: the tiled heap and reset_objects
RECURSIVE TileLoop(_, _, _, _, _)
TileLoop(objs_, i, m, heap, reset) ==
    IF i > Len(objs_) THEN [heap |-> heap, reset |-> reset]
    ELSE IF Len(heap[objs_[i]].pos) = 1
        THEN TileLoop(objs_, i + 1, m,
                      [heap EXCEPT ![objs_[i]] = TilePath(heap[objs_[i]], m)],
                      Append(reset, objs_[i]))
    ELSE TileLoop(objs_, i + 1, m, heap, reset)

Tile(p) ==
    /\ call[p].pc = "tile"
    /\ LET c == call[p]
           t == IF c.m > 1 THEN TileLoop(obj_list(c), 1, c.m, objs, <<>>)
                ELSE [heap |-> objs, reset |-> <<>>]
       IN  /\ objs' = t.heap
           /\ UNCHANGED <<cols, mag, disp>>
           /\ call' = [call EXCEPT ![p] =
                  [c EXCEPT !.pc = "observe", !.reset_objects = t.reset]]

\* the observer positions with the sensor axis before the path axis
Poso_sensorFirst(heap, sensors, m) ==
    Concat([i \in DOMAIN sensors |->
        Concat([j \in 1..m |->
            [q \in DOMAIN heap[sensors[i]].pix.pts |->
                VAdd(RotApply(heap[sensors[i]].rot[j], heap[sensors[i]].pix.pts[q]),
                     heap[sensors[i]].pos[j])]])])

\* lines 205-213: the world positions of all pixels, path step first, then
\* sensor, then pixel, as one flat array of m * n rows
Poso(heap, sensors, m) ==
    Concat([j \in 1..m |->
        Concat([i \in DOMAIN sensors |->
            [q \in DOMAIN heap[sensors[i]].pix.pts |->
                VAdd(RotApply(heap[sensors[i]].rot[j], heap[sensors[i]].pix.pts[q]),
                     heap[sensors[i]].pos[j])]])])

Observe(p) ==
    /\ call[p].pc = "observe"
    /\ LET c == call[p]
           poso == Poso(objs, c.sensors, c.m)
       IN  call' = [call EXCEPT ![p] =
               [c EXCEPT !.pc = "group", !.poso = poso, !.n = Len(poso) \div c.m]]
    /\ UNCHANGED <<objs, cols, mag, disp>>

FamilyIndex(kind) ==
    IF kind = "Box" THEN 1
    ELSE IF kind = "Cylinder" THEN 2
    ELSE IF kind = "Sphere" THEN 3
    ELSE IF kind = "Dipole" THEN 4
    ELSE 0

RECURSIVE GroupLoop_skip(_, _, _, _)
GroupLoop_skip(heap, src_list, i, order) ==
    IF i >= Len(src_list) THEN order
    ELSE LET f == FamilyIndex(heap[src_list[i + 1]].kind)
         IN  IF f = 0 THEN GroupLoop_skip(heap, src_list, i + 1, order)
             ELSE GroupLoop_skip(heap, src_list, i + 1,
                                 [order EXCEPT ![f] = Append(order[f], i)])

\* lines 216-232, from flattened source i (counted from 0) on: the index
\* lists of the four families, or <<>> when a source is of no family
RECURSIVE GroupLoop(_, _, _, _)
GroupLoop(heap, src_list, i, order) ==
    IF i >= Len(src_list) THEN order
    ELSE LET f == FamilyIndex(heap[src_list[i + 1]].kind)
         IN  IF f = 0 THEN <<>>
             ELSE GroupLoop(heap, src_list, i + 1,
                            [order EXCEPT ![f] = Append(order[f], i)])

\* lines 215-235
Group(p) ==
    /\ call[p].pc = "group"
    /\ LET c == call[p]
           order == GroupLoop(objs, c.src_list, 0, <<<<>>, <<>>, <<>>, <<>>>>)
       IN  call' = [call EXCEPT ![p] =
               IF order = <<>> THEN Raise(c, "Unrecognized")
               ELSE [c EXCEPT !.pc = "eval", !.order = order, !.iii = 0,
                              !.B = Rep(Rep(Unwritten, c.m * c.n), Len(c.src_list)),
                              !.writes = Rep(0, Len(c.src_list))]]
    /\ UNCHANGED <<objs, cols, mag, disp>>

\* np.tile(a, (n, 1)): the whole of a repeated n times
TileRows_whole(a, n) == Concat(Rep(a, n))

\* np.tile(a, n).reshape(len(a) * n, -1): every row of a repeated n times
TileRows(a, n) == Concat([j \in DOMAIN a |-> Rep(a[j], n)])

\* lines 9-44 and 47-94: the rows handed to getBH_level1 for one group
scr_dict(heap, group, poso) ==
    LET l_group == Len(group)
        m == Len(heap[group[1]].pos)
        mn == Len(poso)
        n == mn \div m
        magv == Concat([i \in 1..l_group |-> Rep(ExcOf(group[i]), mn)])
        dimv == Concat([i \in 1..l_group |-> Rep(heap[group[i]].dim, mn)])
        posv == Concat([i \in 1..l_group |-> TileRows(heap[group[i]].pos, n)])
        rotv == Concat([i \in 1..l_group |->
                    TileRows([j \in DOMAIN heap[group[i]].rot |->
                                 as_quat(heap[group[i]].rot[j])], n)])
        posov == Concat(Rep(poso, l_group))
    IN  [r \in 1..(l_group * mn) |->
            [exc |-> magv[r], dim |-> dimv[r], pos |-> posv[r],
             rot |-> from_quat(rotv[r]), pos_obs |-> posov[r]]]

\* lines 38-39 (and 85-86): np.tile(src._pos, n).reshape(mn, 3) raises
\* ValueError when the source's path is not as long as that of group[0]
scr_dict_fails(heap, group, poso) ==
    \E i \in DOMAIN group :
        Len(heap[group[i]].pos) * (Len(poso) \div Len(heap[group[1]].pos)) # Len(poso)

\* the closed-form field of one family in the source's own frame
FieldFormula(family, exc, dim, x) ==
    IF family = "Box"
        THEN <<exc[1] + dim * x[2], exc[2] + x[3], exc[3] + x[1] * x[1]>>
    ELSE IF family = "Cylinder"
        THEN <<exc[1] * dim + x[3], exc[2] - x[1], exc[3] + dim * x[2]>>
    ELSE IF family = "Sphere"
        THEN <<exc[1] + dim * x[1], exc[2] + dim * x[2], exc[3] - x[3]>>
    ELSE <<exc[1] - x[2], exc[2] + x[1] * x[3], exc[3] + x[1]>>

\* getBH_level1 on one row: the observer in the source's frame, the
\* formula, and the field rotated back into the world frame
Level1Row(family, row) ==
    RotApply(row.rot,
             FieldFormula(family, row.exc, row.dim,
                          RotApply(RotInv(row.rot), VSub(row.pos_obs, row.pos))))

\* getBH_level1 rejects a magnet of size zero
Level1Fails(family, rows) ==
    family # "Dipole" /\ \E r \in DOMAIN rows : rows[r].dim = 0

getBH_level1(family, rows) == [r \in DOMAIN rows |-> Level1Row(family, rows[r])]

RECURSIVE Scatter_inOrder(_, _, _, _, _)
Scatter_inOrder(B, ord, B_group, mn, i) ==
    IF i >= Len(ord) THEN B
    ELSE Scatter_inOrder([B EXCEPT ![i + 1] = SubSeq(B_group, i * mn + 1, (i + 1) * mn)],
                         ord, B_group, mn, i + 1)

\* lines 244-246: B_group reshaped to (lg, m, n, 3) and put at the rows of B
\* that order names
RECURSIVE Scatter(_, _, _, _, _)
Scatter(B, ord, B_group, mn, i) ==
    IF i >= Len(ord) THEN B
    ELSE Scatter([B EXCEPT ![ord[i + 1] + 1] = SubSeq(B_group, i * mn + 1, (i + 1) * mn)],
                 ord, B_group, mn, i + 1)

RECURSIVE CountWrites(_, _, _)
CountWrites(writes, ord, i) ==
    IF i >= Len(ord) THEN writes
    ELSE CountWrites([writes EXCEPT ![ord[i + 1] + 1] = @ + 1], ord, i + 1)

\* lines 240-246 (and the three blocks after it): B after the block of
\* family iii (counted from 0)
EvalBlock(heap, src_list, order, poso, B, iii) ==
    LET ord == order[iii + 1]
        group == [i \in DOMAIN ord |-> src_list[ord[i] + 1]]
    IN  IF group = <<>> THEN B
        ELSE Scatter(B, ord, getBH_level1(Families[iii + 1], scr_dict(heap, group, poso)),
                     Len(poso), 0)

\* the family blocks with the evaluator called source by source
EvalGroup_perSource(p) ==
    /\ call[p].pc = "eval"
    /\ LET c == call[p]
           family == Families[c.iii + 1]
           ord == c.order[c.iii + 1]
           group == [i \in DOMAIN ord |-> c.src_list[ord[i] + 1]]
           rows == scr_dict(objs, group, c.poso)
           next == IF c.iii = 3 THEN "colsum" ELSE "eval"
       IN  call' = [call EXCEPT ![p] =
               IF group = <<>> THEN [c EXCEPT !.pc = next, !.iii = c.iii + 1,
                                              !.Bworld = c.B]
               ELSE IF scr_dict_fails(objs, group, c.poso) THEN Raise(c, "ValueError")
               ELSE IF Level1Fails(family, rows)
                   THEN Raise([c EXCEPT !.evals = Append(@, [family |-> family,
                                                             rows |-> Len(rows)])],
                              "FormulaDomain")
               ELSE [c EXCEPT
                       !.pc = next, !.iii = c.iii + 1,
                       !.evals = @ \o [i \in DOMAIN group |->
                                          [family |-> family,
                                           rows |-> Len(rows) \div Len(group)]],
                       !.B = EvalBlock(objs, c.src_list, c.order, c.poso, c.B, c.iii),
                       !.Bworld = EvalBlock(objs, c.src_list, c.order, c.poso, c.B, c.iii),
                       !.writes = CountWrites(c.writes, ord, 0)]]
    /\ UNCHANGED <<objs, cols, mag, disp>>

\* lines 237-279: one of the four family blocks, c.iii says which
EvalGroup(p) ==
    /\ call[p].pc = "eval"
    /\ LET c == call[p]
           family == Families[c.iii + 1]
           ord == c.order[c.iii + 1]
           group == [i \in DOMAIN ord |-> c.src_list[ord[i] + 1]]
           rows == scr_dict(objs, group, c.poso)
           next == IF c.iii = 3 THEN "colsum" ELSE "eval"
       IN  call' = [call EXCEPT ![p] =
               IF group = <<>> THEN [c EXCEPT !.pc = next, !.iii = c.iii + 1,
                                              !.Bworld = c.B]
               ELSE IF scr_dict_fails(objs, group, c.poso) THEN Raise(c, "ValueError")
               ELSE IF Level1Fails(family, rows)
                   THEN Raise([c EXCEPT !.evals = Append(@, [family |-> family,
                                                             rows |-> Len(rows)])],
                              "FormulaDomain")
               ELSE [c EXCEPT
                       !.pc = next, !.iii = c.iii + 1,
                       !.evals = Append(@, [family |-> family, rows |-> Len(rows)]),
                       !.B = EvalBlock(objs, c.src_list, c.order, c.poso, c.B, c.iii),
                       !.Bworld = EvalBlock(objs, c.src_list, c.order, c.poso, c.B, c.iii),
                       !.writes = CountWrites(c.writes, ord, 0)]]
    /\ UNCHANGED <<objs, cols, mag, disp>>

\* element-wise sum of the rows B[lo..hi] (counted from 1), zeros if none
SumRows(B, lo, hi, width) ==
    [x \in 1..width |-> SumVecs([r \in 1..(hi - lo + 1) |-> B[lo + r - 1][x]])]

Min(a, b) == IF a < b THEN a ELSE b

RECURSIVE ColSumLoop_first(_, _, _, _)
ColSumLoop_first(items, i, B, width) ==
    IF i >= Len(items) THEN [ok |-> TRUE, B |-> B]
    ELSE IF ~items[i + 1].col THEN ColSumLoop_first(items, i + 1, B, width)
    ELSE LET col_len == Len(items[i + 1].ids)
             hi == Min(i + col_len, Len(B))
             cut == IF hi > i + 1 THEN hi - (i + 1) ELSE 0
         IN  IF i >= Len(B) THEN [ok |-> FALSE, B |-> B]
             ELSE ColSumLoop_first(items, i + 1,
                     [r \in 1..(Len(B) - cut) |->
                         IF r <= i + 1 THEN B[r] ELSE B[r + cut]],
                     width)

\* lines 284-288, from top-level entry i (counted from 0) on
RECURSIVE ColSumLoop(_, _, _, _)
ColSumLoop(items, i, B, width) ==
    IF i >= Len(items) THEN [ok |-> TRUE, B |-> B]
    ELSE IF ~items[i + 1].col THEN ColSumLoop(items, i + 1, B, width)
    ELSE LET col_len == Len(items[i + 1].ids)
             hi == Min(i + col_len, Len(B))
         IN  IF i >= Len(B) THEN [ok |-> FALSE, B |-> B]
             ELSE ColSumLoop(items, i + 1,
                     [r \in 1..(Len(B) - (IF hi > i + 1 THEN hi - (i + 1) ELSE 0)) |->
                         IF r = i + 1 THEN SumRows(B, i + 1, hi, width)
                         ELSE IF r <= i THEN B[r]
                         ELSE B[r + (IF hi > i + 1 THEN hi - (i + 1) ELSE 0)]],
                     width)

\* lines 281-288
ColSum(p) ==
    /\ call[p].pc = "colsum"
    /\ LET c == call[p]
           l0 == Len(c.sources.items)
           l == Len(c.src_list)
           s == IF l > l0 THEN ColSumLoop(c.sources.items, 0, c.B, c.m * c.n)
                ELSE [ok |-> TRUE, B |-> c.B]
       IN  call' = [call EXCEPT ![p] =
               IF ~s.ok THEN Raise(c, "IndexError")
               ELSE [c EXCEPT !.pc = "rotate", !.B = s.B, !.Bsummed = s.B]]
    /\ UNCHANGED <<objs, cols, mag, disp>>

\* lines 297-303 and 306-309 for sensor i (counted from 0): the inverse of
\* the sensor's orientation applied to its pixels' slice of B
RotateSensor(B, sens, i, k_pixel, n, static) ==
    [r \in DOMAIN B |->
        [x \in DOMAIN B[r] |->
            IF ((x - 1) % n) \in (i * k_pixel)..((i + 1) * k_pixel - 1)
                THEN RotApply(RotInv(IF static THEN sens.rot[1]
                                     ELSE sens.rot[(x - 1) \div n + 1]),
                              B[r][x])
            ELSE B[r][x]]]

\* lines 293-309, from sensor i (counted from 0) on
RECURSIVE RotateLoop(_, _, _, _)
RotateLoop(heap, c, i, B) ==
    IF i >= Len(c.sensors) THEN B
    ELSE IF c.unrotated_sensors[i + 1] THEN RotateLoop(heap, c, i + 1, B)
    ELSE RotateLoop(heap, c, i + 1,
                    RotateSensor(B, heap[c.sensors[i + 1]], i, Prod(c.pix_shape),
                                 c.n, c.static_sensor_rot[i + 1]))

\* lines 290-309
Rotate(p) ==
    /\ call[p].pc = "rotate"
    /\ LET c == call[p]
           l0 == Len(c.sources.items)
       IN  call' = [call EXCEPT ![p] =
               IF Len(c.B) # l0 /\ \E i \in DOMAIN c.sensors : ~c.unrotated_sensors[i]
                   THEN Raise(c, "ValueError")
               ELSE [c EXCEPT !.pc = "final",
                              !.B = RotateLoop(objs, c, 0, c.B)]]
    /\ UNCHANGED <<objs, cols, mag, disp>>

NotOne(d) == d # 1

Squeeze_leading(shape) ==
    IF shape # <<>> /\ Head(shape) = 1 THEN Tail(shape) ELSE shape

\* np.squeeze
Squeeze(shape) == SelectSeq(shape, NotOne)

\* lines 311-321
Finalize(p) ==
    /\ call[p].pc = "final"
    /\ \E sumup \in BOOLEAN, squeeze \in BOOLEAN :
        LET c == call[p]
            l0 == Len(c.sources.items)
            k == Len(c.sensors)
            shape == <<l0, c.m, k>> \o c.pix_shape \o <<3>>
            summed == IF sumup
                        THEN [shape |-> Tail(shape),
                              data |-> SumRows(c.B, 1, Len(c.B), c.m * c.n)]
                        ELSE [shape |-> shape, data |-> Concat(c.B)]
        IN  call' = [call EXCEPT ![p] =
                IF Len(c.B) # l0
                    THEN Raise([c EXCEPT !.sumup = sumup, !.squeeze = squeeze],
                               "ValueError")
                ELSE [c EXCEPT !.pc = "reset", !.sumup = sumup, !.squeeze = squeeze,
                               !.result =
                                   IF squeeze
                                       THEN [summed EXCEPT !.shape = Squeeze(@)]
                                       ELSE summed]]
    /\ UNCHANGED <<objs, cols, mag, disp>>

ResetPath_posOnly(o) == [o EXCEPT !.pos = <<o.pos[1]>>]

\* lines 325-326
ResetPath(o) == [o EXCEPT !.pos = <<o.pos[1]>>, !.rot = <<o.rot[1]>>]

RECURSIVE ResetLoop(_, _)
ResetLoop(reset, heap) ==
    IF reset = <<>> THEN heap
    ELSE ResetLoop(Tail(reset),
                   [heap EXCEPT ![Head(reset)] = ResetPath(heap[Head(reset)])])

\* lines 323-328
Reset(p) ==
    /\ call[p].pc = "reset"
    /\ objs' = ResetLoop(call[p].reset_objects, objs)
    /\ UNCHANGED <<cols, mag, disp>>
    /\ call' = [call EXCEPT ![p].pc = "done"]

Next ==
    \E p \in {1} :
        \/ FormatInput(p)
        \/ PathCheck(p)
        \/ Tile(p)
        \/ Observe(p)
        \/ Group(p)
        \/ EvalGroup(p)
        \/ ColSum(p)
        \/ Rotate(p)
        \/ Finalize(p)
        \/ Reset(p)

Spec == Init /\ [][Next]_vars

\* ------------------------------------------------- a caller turning sensors
\* BaseGeo.rotate(rot, anchor=None, steps=-1): path[-1] is rotated about
\* the object's own centre.  The composed quaternion is held in floating
\* point, so it is either the exact unit quaternion of the composed
\* rotation or a quaternion of the same rotation that differs from it
\* element-wise.
rotate(o, q, exact) ==
    [o EXCEPT !.rot[Len(o.rot)] =
        IF exact THEN from_quat(Compose(q, o.rot[Len(o.rot)]))
        ELSE Compose(q, o.rot[Len(o.rot)])]

\* the rotations a caller applies: quarter turns about z and x, and back
Turns == {Rz90, RotInv(Rz90), Rx90}

MaxTurns == 2

RotSources ==
    { [isList |-> FALSE, items |-> <<Elem("s1")>>],
      [isList |-> TRUE, items |-> <<Coll(<<"s1", "s2">>), Elem("s3")>>] }

RotObservers ==
    { [form |-> "sensor", items |-> <<SensItem("k1")>>],
      [form |-> "list", items |-> <<SensItem("k1"), SensItem("k2")>>],
      [form |-> "list", items |-> <<SensItem("k2"), BareItem(BareQ)>>] }

RotScenes ==
    UNION { { [ty |-> ty, inp |-> inp, len |-> len] :
                len \in LenPatterns(Participants(inp)) } :
            ty \in {t \in Typings : t.s1.kind = "Box"},
            inp \in [sources : RotSources, observers : RotObservers] }

InitRot ==
    \E sc \in RotScenes :
        /\ objs = Scene(sc.ty, sc.inp, sc.len)
        /\ cols = NoCols
        /\ mag = NoMag
        /\ disp = NoDisp
        /\ call = [p \in Procs |->
                      IF p = 1
                          THEN [Pending(sc.inp, Scene(sc.ty, sc.inp, sc.len))
                                    EXCEPT !.pc = "setup"]
                      ELSE IdleCall]

\* the caller rotates one of the Sensors it will pass as observer
SensorTurn(p) ==
    /\ call[p].pc = "setup"
    /\ Len(call[p].turns) < MaxTurns
    /\ \E k \in Sens \cap Participants(call[p]), q \in Turns, exact \in BOOLEAN :
          /\ objs' = [objs EXCEPT ![k] = rotate(objs[k], q, exact)]
          /\ UNCHANGED <<cols, mag, disp>>
          /\ call' = [call EXCEPT ![p].turns = Append(@, [k |-> k, q |-> q])]

\* the caller calls getBH_level2
Enter(p) ==
    /\ call[p].pc = "setup"
    /\ call' = [call EXCEPT ![p].pc = "start", ![p].orig = Paths(objs)]
    /\ UNCHANGED <<objs, cols, mag, disp>>

NextRot ==
    \E p \in {1} :
        \/ SensorTurn(p)
        \/ Enter(p)
        \/ FormatInput(p)
        \/ PathCheck(p)
        \/ Tile(p)
        \/ Observe(p)
        \/ Group(p)
        \/ EvalGroup(p)
        \/ ColSum(p)
        \/ Rotate(p)
        \/ Finalize(p)
        \/ Reset(p)

SpecRot == InitRot /\ [][NextRot]_vars

\* ------------------------------------------------- two interleaved calls
\* Two callers (threads) call getBH_level2 on scenes that share sources;
\* the stages of the two calls interleave.  The Sensors are on paths, the
\* sources s1 and s2 are static, s3 is on a path of length 2.
ConcArgs ==
    { [sources |-> [isList |-> FALSE, items |-> <<Elem("s1")>>],
       observers |-> [form |-> "sensor", items |-> <<SensItem("k1")>>]],
      [sources |-> [isList |-> TRUE, items |-> <<Elem("s1"), Elem("s3")>>],
       observers |-> [form |-> "sensor", items |-> <<SensItem("k1")>>]],
      [sources |-> [isList |-> FALSE, items |-> <<Elem("s1")>>],
       observers |-> [form |-> "sensor", items |-> <<SensItem("k2")>>]],
      [sources |-> [isList |-> FALSE, items |-> <<Coll(<<"s1", "s2">>)>>],
       observers |-> [form |-> "sensor", items |-> <<SensItem("k2")>>]] }

ConcLens ==
    { [o \in UNION {Participants(a) : a \in ConcArgs} |->
          IF o = "k2" THEN n ELSE IF o \in {"s3", "k1"} THEN 2 ELSE 1] :
      n \in 2..MaxPath }

\* the arguments of both calls taken together
Both(a1, a2) ==
    [sources |-> [isList |-> TRUE, items |-> a1.sources.items \o a2.sources.items],
     observers |-> [form |-> "list", items |-> a1.observers.items \o a2.observers.items]]

InitConc ==
    \E a1 \in ConcArgs, a2 \in ConcArgs, len \in ConcLens :
        \E ty \in {t \in Typings : t.s1.kind = "Dipole"} :
            /\ objs = Scene(ty, Both(a1, a2), len)
            /\ cols = NoCols
            /\ mag = NoMag
            /\ disp = NoDisp
            /\ call = [p \in Procs |->
                          Pending(IF p = 1 THEN a1 ELSE a2,
                                  Scene(ty, Both(a1, a2), len))]

NextConc ==
    \E p \in Procs :
        \/ FormatInput(p)
        \/ PathCheck(p)
        \/ Tile(p)
        \/ Observe(p)
        \/ Group(p)
        \/ EvalGroup(p)
        \/ ColSum(p)
        \/ Rotate(p)
        \/ Finalize(p)
        \/ Reset(p)

SpecConc == InitConc /\ [][NextConc]_vars

\* ------------------------------------------------- class Collection
\* an argument of the constructor, of add, + , - and remove, and of the
\* sources setter: a source, a Collection, or a list of sources
SrcArg(s) == [k |-> "src", v |-> s, l |-> <<>>]

ColArg(c) == [k |-> "col", v |-> c, l |-> <<>>]

ListArg(l) == [k |-> "list", v |-> "", l |-> l]

\* Collection.sources (the getter, lines 41-45)
Sources(st, c) == st.lists[st.ref[c]]

\* magpylib3._lib.math_utility.utility.format_src_input: a new flat list,
\* Collections and lists replaced by their sources in order
format_src_input(st, args) ==
    Concat([i \in DOMAIN args |->
               IF args[i].k = "src" THEN <<args[i].v>>
               ELSE IF args[i].k = "col" THEN Sources(st, args[i].v)
               ELSE args[i].l])

\* magpylib3._lib.math_utility.utility.check_duplicates: every source once,
\* at the place of its first occurrence
RECURSIVE check_duplicates(_)
check_duplicates(src_list) ==
    IF src_list = <<>> THEN <<>>
    ELSE LET init == check_duplicates(SubSeq(src_list, 1, Len(src_list) - 1))
             last == src_list[Len(src_list)]
         IN  IF last \in SeqRange(init) THEN init ELSE Append(init, last)

\* a list object no Collection refers to
FreshList(st) ==
    CHOOSE l \in ListIds :
        /\ \A c \in ColIds : st.ref[c] # l
        /\ \A k \in ListIds : (\A c \in ColIds : st.ref[c] # k) => l <= k

\* lists no Collection refers to any more are gone
Collected(st) ==
    [st EXCEPT !.lists = [l \in ListIds |->
        IF \E c \in ColIds : st.ref[c] = l THEN st.lists[l] ELSE <<>>]]

\* a new list object holding src_list becomes c._sources
Bind(st, c, src_list) ==
    LET l == FreshList([st EXCEPT !.ref[c] = 0])
    IN  Collected([st EXCEPT !.ref[c] = l, !.lists[l] = src_list])

sources_setter_alias(st, c, args) ==
    IF Len(args) = 1 /\ args[1].k = "col" /\ args[1].v # c
        THEN Collected([st EXCEPT !.ref[c] = st.ref[args[1].v]])
    ELSE Bind(st, c, check_duplicates(format_src_input(st, args)))

\* lines 48-57: the sources setter (called by __init__, line 37)
sources_setter(st, c, args) ==
    Bind(st, c, check_duplicates(format_src_input(st, args)))

add_noCheck(st, c, args) ==
    Bind(st, c, Sources(st, c) \o format_src_input(st, args))

add_front(st, c, args) ==
    Bind(st, c, check_duplicates(format_src_input(st, args) \o Sources(st, c)))

\* lines 88-109: Collection.add
add(st, c, args) ==
    Bind(st, c, check_duplicates(Sources(st, c) \o format_src_input(st, args)))

\* list.remove: the first occurrence is taken out of the list in place
ListRemove(l, x) ==
    LET i == CHOOSE j \in DOMAIN l : l[j] = x /\ \A k \in 1..(j - 1) : l[k] # x
    IN  SubSeq(l, 1, i - 1) \o SubSeq(l, i + 1, Len(l))

\* lines 112-122: Collection.remove; list.remove raises ValueError (and
\* changes nothing) when the argument is not in the list, as is the case
\* for every Collection given as argument
remove(st, c, arg) ==
    IF arg.k = "src" /\ arg.v \in SeqRange(Sources(st, c))
        THEN [st EXCEPT !.lists[st.ref[c]] = ListRemove(@, arg.v)]
    ELSE st

remove_raises(st, c, arg) ==
    ~(arg.k = "src" /\ arg.v \in SeqRange(Sources(st, c)))

\* BaseGeo.move_by(displacement, steps=-1): path[-1] is displaced
move_by(o, displacement, steps) ==
    [o EXCEPT !.pos[Len(o.pos)] = VAdd(@, displacement)]

\* BaseGeo.rotate(rot, anchor, steps=-1): path[-1] is rotated, about the
\* object's centre when anchor is None (<<>> here), else about the anchor
rotate_about(o, rot, anchor, steps) ==
    [o EXCEPT !.rot[Len(o.rot)] = from_quat(Compose(rot, @)),
              !.pos[Len(o.pos)] =
                  IF anchor = <<>> THEN @
                  ELSE VAdd(anchor[1], RotApply(rot, VSub(@, anchor[1])))]

\* the rotation by a quarter turn about a coordinate axis
AngAx(angle, axis) ==
    LET q == IF axis = <<0, 0, 1>> THEN Rz90 ELSE Rx90
    IN  IF angle = 90 THEN q ELSE RotInv(q)

\* BaseGeo.rotate_from_angax(angle, axis, anchor, steps, degree)
rotate_from_angax(o, angle, axis, anchor, steps, degree) ==
    rotate_about(o, AngAx(angle, axis), anchor, steps)

\* the call s.<method>(*args) on source object o
MemberCall(o, method, args) ==
    IF method = "move_by" THEN move_by(o, args[1][1], args[2][1])
    ELSE IF method = "rotate" THEN rotate_about(o, args[1][1], args[2], args[3][1])
    ELSE rotate_from_angax(o, args[1][1], args[2][1], args[3], args[4][1], args[5][1])

RECURSIVE ForEach_first(_, _, _, _, _, _)
ForEach_first(members, i, heap, log, method, args) ==
    IF i > Len(members) \/ i > 1 THEN [heap |-> heap, log |-> log]
    ELSE ForEach_first(members, i + 1,
                 [heap EXCEPT ![members[i]] = MemberCall(@, method, args)],
                 Append(log, [obj |-> members[i], method |-> method, args |-> args]),
                 method, args)

\* lines 181-182, 209-210, 243-244: for s in self: s.<method>(*args), from
\* member i on; the heap after the calls and the calls made
RECURSIVE ForEach(_, _, _, _, _, _)
ForEach(members, i, heap, log, method, args) ==
    IF i > Len(members) THEN [heap |-> heap, log |-> log]
    ELSE ForEach(members, i + 1,
                 [heap EXCEPT ![members[i]] = MemberCall(@, method, args)],
                 Append(log, [obj |-> members[i], method |-> method, args |-> args]),
                 method, args)

\* the argument tuples callers pass to the constructor, add and the setter
ArgTuples ==
    { <<>>,
      <<SrcArg("s1")>>,
      <<SrcArg("s2")>>,
      <<SrcArg("s3"), SrcArg("s3")>>,
      <<SrcArg("s2"), SrcArg("s1")>>,
      <<ColArg("cA")>>,
      <<ColArg("cB"), SrcArg("s1")>>,
      <<ListArg(<<"s3", "s2">>), SrcArg("s1")>> }

\* the argument tuples callers assign to sources
SetTuples ==
    { <<>>,
      <<SrcArg("s2"), SrcArg("s1"), SrcArg("s2")>>,
      <<ColArg("cB"), SrcArg("s1")>> }

\* the single arguments of remove, and of + and -
SingleArgs == {SrcArg(s) : s \in Src} \cup {ColArg("cA")}

PlusArgs == {SrcArg("s1"), SrcArg("s3"), ColArg("cB")}

MinusArgs == {SrcArg("s1"), SrcArg("s2"), ColArg("cA")}

\* the arguments of the three transforms, as the tuples passed on
TransformArgs(method) ==
    IF method = "move_by" THEN { << <<d>>, <<-1>> >> : d \in {<<1, 0, 0>>} }
    ELSE IF method = "rotate"
        THEN { << <<q>>, a, <<-1>> >> : q \in {Rz90}, a \in {<<Zero3>>} }
    ELSE { << <<90>>, <<ax>>, <<>>, <<-1>>, <<TRUE>> >> : ax \in {<<1, 0, 0>>} }

\* the number of transforms a caller applies, once its Collections are
\* built (the operations on sources lists do not read the paths and the
\* transforms do not change the lists)
MaxMoves == 2

\* every Collection named in args has been constructed
Constructed(st, args) ==
    \A i \in DOMAIN args : args[i].k = "col" => st.ref[args[i].v] # 0

\* what the last operation was, on which Collection self, with which
\* arguments and sources before it, and the object it returned (every
\* method ends in `return self`; __init__ gives the new object)
Ret(op, c, args, before, raised) ==
    [op |-> op, c |-> c, args |-> args, before |-> before, raised |-> raised,
     val |-> IF raised THEN "" ELSE c]

InitColl ==
    /\ objs = [o \in AllIds |->
                  IF o = "s1" THEN MkObj("Box", 1, o, 1)
                  ELSE IF o = "s2" THEN MkObj("Cylinder", 2, o, 1)
                  ELSE IF o = "s3" THEN MkObj("Sphere", 1, o, 2)
                  ELSE FreeObj]
    /\ call = [p \in Procs |-> IdleCall]
    /\ cols = NoCols
    /\ mag = NoMag
    /\ disp = NoDisp

\* c = Collection(*args), lines 35-37
Construct(c) ==
    /\ cols.ref[c] = 0
    /\ cols.moves = 0
    /\ \E args \in ArgTuples :
          /\ Constructed(cols, args)
          /\ cols' = [sources_setter(cols, c, args) EXCEPT
                         !.ret = Ret("init", c, args, <<>>, FALSE), !.log = <<>>]
    /\ UNCHANGED <<objs, call, mag, disp>>

\* c.sources = args
Assign(c) ==
    /\ cols.ref[c] # 0
    /\ cols.moves = 0
    /\ \E args \in SetTuples :
          /\ Constructed(cols, args)
          /\ cols' = [sources_setter(cols, c, args) EXCEPT
                         !.ret = Ret("set", c, args, Sources(cols, c), FALSE),
                         !.log = <<>>]
    /\ UNCHANGED <<objs, call, mag, disp>>

\* c.add(*args), which returns c
Add(c) ==
    /\ cols.ref[c] # 0
    /\ cols.moves = 0
    /\ \E args \in ArgTuples :
          /\ Constructed(cols, args)
          /\ cols' = [add(cols, c, args) EXCEPT
                         !.ret = Ret("add", c, args, Sources(cols, c), FALSE),
                         !.log = <<>>]
    /\ UNCHANGED <<objs, call, mag, disp>>

\* c + source, lines 61-65
Plus(c) ==
    /\ cols.ref[c] # 0
    /\ cols.moves = 0
    /\ \E arg \in PlusArgs :
          /\ Constructed(cols, <<arg>>)
          /\ cols' = [add(cols, c, <<arg>>) EXCEPT
                         !.ret = Ret("plus", c, <<arg>>, Sources(cols, c), FALSE),
                         !.log = <<>>]
    /\ UNCHANGED <<objs, call, mag, disp>>

\* c.remove(source), which returns c or raises ValueError
Remove(c) ==
    /\ cols.ref[c] # 0
    /\ cols.moves = 0
    /\ \E arg \in SingleArgs :
          /\ Constructed(cols, <<arg>>)
          /\ cols' = [remove(cols, c, arg) EXCEPT
                         !.ret = Ret("remove", c, <<arg>>, Sources(cols, c),
                                     remove_raises(cols, c, arg)),
                         !.log = <<>>]
    /\ UNCHANGED <<objs, call, mag, disp>>

\* c - source, lines 68-72
Minus(c) ==
    /\ cols.ref[c] # 0
    /\ cols.moves = 0
    /\ \E arg \in MinusArgs :
          /\ Constructed(cols, <<arg>>)
          /\ cols' = [remove(cols, c, arg) EXCEPT
                         !.ret = Ret("minus", c, <<arg>>, Sources(cols, c),
                                     remove_raises(cols, c, arg)),
                         !.log = <<>>]
    /\ UNCHANGED <<objs, call, mag, disp>>

\* c.move_by(...), c.rotate(...), c.rotate_from_angax(...), lines 161-245
Transform(c) ==
    /\ cols.ref[c] # 0
    /\ cols.moves < MaxMoves
    /\ \E method \in {"move_by", "rotate", "rotate_from_angax"} :
        \E args \in TransformArgs(method) :
          LET r == ForEach(Sources(cols, c), 1, objs, <<>>, method, args)
          IN  /\ objs' = r.heap
              /\ cols' = [cols EXCEPT
                             !.ret = Ret(method, c, args, Sources(cols, c), FALSE),
                             !.log = r.log, !.moves = @ + 1]
    /\ UNCHANGED <<call, mag, disp>>

NextColl ==
    \E c \in ColIds :
        \/ Construct(c)
        \/ Assign(c)
        \/ Add(c)
        \/ Plus(c)
        \/ Remove(c)
        \/ Minus(c)
        \/ Transform(c)

SpecColl == InitColl /\ [][NextColl]_vars

\* lines 248-250: copy.copy(self), a new Collection object whose
\* attributes are those of c: its _sources is the list object of c
copy(st, c, c2) == [st EXCEPT !.ref[c2] = st.ref[c]]

\* c2 = c.copy()
Copy(c) ==
    /\ cols.ref[c] # 0
    /\ cols.moves = 0
    /\ \E c2 \in ColIds \ {c} :
          /\ cols.ref[c2] = 0
          /\ cols' = [copy(cols, c, c2) EXCEPT
                         !.ret = [Ret("copy", c, <<>>, Sources(cols, c), FALSE)
                                     EXCEPT !.val = c2],
                         !.log = <<>>]
    /\ UNCHANGED <<objs, call, mag, disp>>

\* a caller who constructs one Collection, copies it and applies add and
\* remove to the two
NextCopy ==
    \/ Construct("cA")
    \/ Copy("cA")
    \/ \E c \in ColIds : Add(c)
    \/ \E c \in ColIds : Remove(c)

SpecCopy == InitColl /\ [][NextCopy]_vars

\* getBH_level2 as a function of the scene and its arguments, for a call
\* that raises nothing: the tensor of lines 97-309, before the final reshape
GetB(heap0, items, obs) ==
    LET heap1 == HeapWithSensors(1, obs, heap0)
        sensors == SensorsOf(1, obs)
        src_list == format_obj_input(items)
        m == get_good_path_length(heap1, src_list \o sensors)
        heap2 == IF m > 1 THEN TileLoop(src_list \o sensors, 1, m, heap1, <<>>).heap
                 ELSE heap1
        poso == Poso(heap2, sensors, m)
        n == Len(poso) \div m
        order == GroupLoop(heap2, src_list, 0, <<<<>>, <<>>, <<>>, <<>>>>)
        B0 == Rep(Rep(Unwritten, m * n), Len(src_list))
        B1 == EvalBlock(heap2, src_list, order, poso, B0, 0)
        B2 == EvalBlock(heap2, src_list, order, poso, B1, 1)
        B3 == EvalBlock(heap2, src_list, order, poso, B2, 2)
        B4 == EvalBlock(heap2, src_list, order, poso, B3, 3)
        Bs == IF Len(src_list) > Len(items)
                THEN ColSumLoop(items, 0, B4, m * n).B
                ELSE B4
        cc == [sensors |-> sensors,
               unrotated_sensors |->
                   [i \in DOMAIN sensors |-> UnrotatedSensor(heap1[sensors[i]])],
               static_sensor_rot |->
                   [i \in DOMAIN sensors |-> StaticSensorRot(heap1[sensors[i]])],
               pix_shape |-> heap1[sensors[1]].pix.shape,
               n |-> n]
    IN  [m |-> m, n |-> n, B |-> RotateLoop(heap2, cc, 0, Bs)]

\* ------------------------------------------------- class Cube, Cylinder, Sphere
VNeg(a) == <<-a[1], -a[2], -a[3]>>

\* magPyLib._lib.mathLibPrivate.angleAxisRotation: v turned by angle (in
\* degrees, here a multiple of 90) about the unit vector axis (Rodrigues)
angleAxisRotation(angle, axis, v) ==
    LET c == IF angle % 360 = 0 THEN 1 ELSE IF angle % 360 = 180 THEN -1 ELSE 0
        s == IF angle % 360 = 90 THEN 1 ELSE IF angle % 360 = 270 THEN -1 ELSE 0
        kxv == <<axis[2] * v[3] - axis[3] * v[2],
                 axis[3] * v[1] - axis[1] * v[3],
                 axis[1] * v[2] - axis[2] * v[1]>>
        kv == axis[1] * v[1] + axis[2] * v[2] + axis[3] * v[3]
    IN  [d \in 1..3 |-> c * v[d] + s * kxv[d] + (1 - c) * kv * axis[d]]

\* the family of the formula a class calls: Bfield_Cube, Bfield_Cylinder,
\* Bfield_Sphere
MagnetKinds == {"Box", "Cylinder", "Sphere"}

\* getB with the observer turned into the magnet's frame by the forward
\* rotation
getB_forwardIn(m, pos) ==
    LET posRel == VSub(pos, m.position)
        p21newCm == angleAxisRotation(m.angle, m.axis, posRel)
        BCm == FieldFormula(m.kind, m.magnetization, m.dimension, p21newCm)
    IN  angleAxisRotation(m.angle, m.axis, BCm)

\* lines 112-143, 251-282, 374-405: getB(pos) of the magnet m
getB(m, pos) ==
    LET posRel == VSub(pos, m.position)
        p21newCm == angleAxisRotation(m.angle, VNeg(m.axis), posRel)
        BCm == FieldFormula(m.kind, m.magnetization, m.dimension, p21newCm)
    IN  angleAxisRotation(m.angle, m.axis, BCm)

MaxCalls == 2

\* lines 100-109, 235-249, 361-372: a magnet as its constructor leaves it
InitMag ==
    /\ \E kind \in MagnetKinds, position \in {Zero3, <<1, 1, 0>>},
          angle \in {0, 90, 180, 270},
          axis \in {<<0, 0, 1>>, <<1, 0, 0>>, <<0, -1, 0>>},
          magnetization \in {<<0, 0, 1>>, <<1, 2, 0>>}, dimension \in {1, 2} :
          LET made == [kind |-> kind, position |-> position, angle |-> angle,
                       axis |-> axis, magnetization |-> magnetization,
                       dimension |-> dimension]
          IN  mag = [NoMag EXCEPT !.pc = "made", !.kind = kind,
                                  !.position = position, !.angle = angle,
                                  !.axis = axis, !.magnetization = magnetization,
                                  !.dimension = dimension, !.made = made]
    /\ objs = [o \in AllIds |-> FreeObj]
    /\ call = [p \in Procs |-> IdleCall]
    /\ cols = NoCols
    /\ disp = NoDisp

\* a call of getB: no attribute of the magnet is assigned
MagnetGetB(pos) ==
    /\ mag.calls < MaxCalls
    /\ mag' = [mag EXCEPT !.pc = "done", !.pos = pos, !.B = getB(mag, pos),
                          !.calls = @ + 1]
    /\ UNCHANGED <<objs, call, cols, disp>>

NextMag == \E pos \in {<<1, 0, 0>>, <<0, 2, 1>>, <<-1, 1, 2>>} : MagnetGetB(pos)

SpecMag == InitMag /\ [][NextMag]_vars

\* ------------------------------------------------- display: show, show_context
\* dict.update with the keywords a call gives
Update(kwargs, given) ==
    [k \in KwKeys |-> IF given[k] # "unset" THEN given[k] ELSE kwargs[k]]

\* magpylib._src.display.traces_utility.process_show_input_objs: every
\* object as a dict with the row, col, output keywords of the call; an
\* object that cannot be displayed raises
process_show_input_objs(objects, rco) ==
    [i \in DOMAIN objects |->
        [obj |-> objects[i].obj, rco |-> IF rco # "" THEN rco ELSE objects[i].rco]]

process_raises(objects) == \E i \in DOMAIN objects : objects[i].obj = "bad"

\* lines 132-137: DisplayContext.reset
reset(ctx) == NoDisp.ctx

\* lines 146-203: _show, which renders or raises (an object or a backend
\* the input checks reject); renders lists the figures rendered
show_raises(objects, kwargs) == process_raises(objects) \/ kwargs.backend = "bad"

Render(d, objects, rco, kwargs) ==
    [d EXCEPT !.renders = Append(@, [objects |-> process_show_input_objs(objects, rco),
                                     kwargs |-> kwargs])]

\* show_context left without the finally clause
show_context_exit_noFinally(d, bodyRaised) ==
    LET popped == [d EXCEPT !.blocks = SubSeq(@, 1, Len(@) - 1)]
    IN  IF bodyRaised
            THEN [popped EXCEPT !.ret = [op |-> "exit", val |-> "", raised |-> TRUE]]
        ELSE IF show_raises(d.ctx.objects, d.ctx.kwargs)
            THEN [popped EXCEPT !.ret = [op |-> "exit", val |-> "", raised |-> TRUE]]
        ELSE [Render(popped, d.ctx.objects, "", d.ctx.kwargs) EXCEPT
                 !.ctx = reset(d.ctx),
                 !.ret = [op |-> "exit", val |-> "", raised |-> FALSE]]

\* lines 315-322: show(*objects, **kwargs)
show(d, objects, rco, kwargs) ==
    IF d.ctx.isrunning
        THEN IF process_raises(d.ctx.objects_from_ctx \o objects)
                 THEN [d EXCEPT !.ctx.kwargs = Update(@, kwargs),
                                !.ret = [op |-> "show", val |-> "", raised |-> TRUE]]
             ELSE [d EXCEPT
                     !.ctx.kwargs = Update(@, kwargs),
                     !.ctx.objects = @ \o process_show_input_objs(
                                              d.ctx.objects_from_ctx \o objects, rco),
                     !.ret = [op |-> "show", val |-> "None", raised |-> FALSE]]
    ELSE IF show_raises(objects, kwargs)
        THEN [d EXCEPT !.ret = [op |-> "show", val |-> "", raised |-> TRUE]]
    ELSE [Render(d, objects, rco, kwargs) EXCEPT
             !.ret = [op |-> "show", val |-> "shown", raised |-> FALSE]]

\* lines 332-338: show_context up to the yield; an exception before the
\* yield runs the finally clause (lines 340-341) and no body
show_context_enter(d, objects, rco, kwargs) ==
    IF process_raises(objects)
        THEN [d EXCEPT !.ctx = reset(d.ctx),
                       !.ret = [op |-> "enter", val |-> "", raised |-> TRUE]]
    ELSE [d EXCEPT
            !.ctx.isrunning = TRUE,
            !.ctx.objects_from_ctx = @ \o process_show_input_objs(objects, rco),
            !.ctx.kwargs = Update(@, kwargs),
            !.blocks = Append(@, [shown |-> <<>>, kwargs |-> NoKwargs]),
            !.ret = [op |-> "enter", val |-> "ctx", raised |-> FALSE]]

\* lines 338-341: show_context from the yield on; bodyRaised says whether
\* the body of the with statement raised
show_context_exit(d, bodyRaised) ==
    LET popped == [d EXCEPT !.blocks = SubSeq(@, 1, Len(@) - 1),
                            !.ctx = reset(d.ctx)]
    IN  IF bodyRaised
            THEN [popped EXCEPT !.ret = [op |-> "exit", val |-> "", raised |-> TRUE]]
        ELSE IF show_raises(d.ctx.objects, d.ctx.kwargs)
            THEN [popped EXCEPT !.ret = [op |-> "exit", val |-> "", raised |-> TRUE]]
        ELSE [Render(popped, d.ctx.objects, "", d.ctx.kwargs) EXCEPT
                 !.ret = [op |-> "exit", val |-> "", raised |-> FALSE]]

MaxOps == 5

MaxDepth == 2

\* the arguments of the calls a caller makes: objects (each with the row,
\* col, output keywords attached to it, "" for none), the row, col, output
\* keywords of the call (rco) and its other keywords
ShowCalls ==
    { [objects |-> <<>>, rco |-> "col1", kwargs |-> NoKwargs],
      [objects |-> <<[obj |-> "a", rco |-> ""]>>, rco |-> "",
       kwargs |-> [backend |-> "unset", zoom |-> "1"]],
      [objects |-> <<[obj |-> "b", rco |-> ""]>>, rco |-> "col2",
       kwargs |-> [backend |-> "plotly", zoom |-> "unset"]],
      [objects |-> <<[obj |-> "bad", rco |-> ""]>>, rco |-> "", kwargs |-> NoKwargs],
      [objects |-> <<[obj |-> "a", rco |-> ""]>>, rco |-> "",
       kwargs |-> [backend |-> "bad", zoom |-> "unset"]] }

ContextCalls ==
    { [objects |-> <<>>, rco |-> "", kwargs |-> NoKwargs],
      [objects |-> <<[obj |-> "c", rco |-> ""]>>, rco |-> "",
       kwargs |-> [backend |-> "plotly", zoom |-> "unset"]],
      [objects |-> <<[obj |-> "bad", rco |-> ""]>>, rco |-> "", kwargs |-> NoKwargs] }

InitDisp ==
    /\ disp = NoDisp
    /\ objs = [o \in AllIds |-> FreeObj]
    /\ call = [p \in Procs |-> IdleCall]
    /\ cols = NoCols
    /\ mag = NoMag

\* what the block whose body is running has been asked to show by the
\* show() calls that returned: kept for the claims, no part of the
\* program's state
Asked(d, a) ==
    IF d.blocks = <<>> THEN d.blocks
    ELSE [d.blocks EXCEPT ![Len(d.blocks)] =
             [shown |-> @.shown \o process_show_input_objs(
                                       d.ctx.objects_from_ctx \o a.objects, a.rco),
              kwargs |-> Update(@.kwargs, a.kwargs)]]

\* a with show_context(...) statement is entered
EnterContext(a) ==
    /\ disp.ops < MaxOps
    /\ Len(disp.blocks) < MaxDepth
    /\ disp' = [show_context_enter(disp, a.objects, a.rco, a.kwargs) EXCEPT
                   !.ops = @ + 1,
                   !.last = [objects |-> a.objects, rco |-> a.rco,
                             kwargs |-> a.kwargs, bodyRaised |-> FALSE]]
    /\ UNCHANGED <<objs, call, cols, mag>>

\* show(...) is called, in the body of a block or outside any
ShowCall(a) ==
    /\ disp.ops < MaxOps
    /\ disp' = [show(disp, a.objects, a.rco, a.kwargs) EXCEPT
                   !.blocks = IF show(disp, a.objects, a.rco, a.kwargs).ret.raised
                                  THEN @ ELSE Asked(disp, a),
                   !.ops = @ + 1,
                   !.last = [objects |-> a.objects, rco |-> a.rco,
                             kwargs |-> a.kwargs, bodyRaised |-> FALSE]]
    /\ UNCHANGED <<objs, call, cols, mag>>

\* the innermost block is left, at the end of its body or by an exception
\* of its body
ExitContext(bodyRaised) ==
    /\ disp.blocks # <<>>
    /\ disp' = [show_context_exit(disp, bodyRaised) EXCEPT
                   !.last = [objects |-> <<>>, rco |-> "", kwargs |-> NoKwargs,
                             bodyRaised |-> bodyRaised]]
    /\ UNCHANGED <<objs, call, cols, mag>>

NextDisp ==
    \/ \E a \in ContextCalls : EnterContext(a)
    \/ \E a \in ShowCalls : ShowCall(a)
    \/ \E bodyRaised \in BOOLEAN : ExitContext(bodyRaised)

SpecDisp == InitDisp /\ [][NextDisp]_vars

\* ------------------------------------------------------------ claims
\* The call under examination and the objects a caller can hold.
c1 == call[1]

UserObjs == Src \cup Sens

Unchanged(o) == objs[o].pos = c1.orig[o].pos /\ objs[o].rot = c1.orig[o].rot

Running == {"observe", "group", "eval", "colsum", "rotate", "final", "reset"}

\* the lengths the paths of the call's objects had when it was entered
\* (a Sensor the call constructs for bare positions is static)
OrigLens ==
    {Len(c1.orig[o].pos) : o \in Participants(c1)}
        \cup {1 : i \in {x \in DOMAIN c1.observers.items : ~c1.observers.items[x].sensor}}

\* C1: after a normal return every source and sensor has exactly the path
\* it had before the call: an object that was static and was tiled to the
\* common length M > 1 is back at its one original position and
\* orientation, and an object whose path already had length M is not
\* modified in any state of the call.
C1_PathsRestored ==
    /\ c1.pc = "done" => \A o \in UserObjs : Unchanged(o)
    /\ \A o \in UserObjs :
          (Len(c1.orig[o].pos) # 1 \/ c1.m <= 1) => Unchanged(o)
    /\ \A o \in Participants(c1) :
          (c1.pc \in Running /\ c1.m > 1 /\ Len(c1.orig[o].pos) = 1)
              => /\ Len(objs[o].pos) = c1.m
                 /\ \A j \in 1..c1.m :
                       /\ objs[o].pos[j] = c1.orig[o].pos[1]
                       /\ objs[o].rot[j] = c1.orig[o].rot[1]

\* C1 witness: a call has returned after tiling a static object next to an
\* object that moves along a path of length M > 1.
C1_Witness ==
    /\ c1.pc = "done"
    /\ c1.m > 1
    /\ c1.reset_objects # <<>>
    /\ \E o \in Participants(c1) : Len(c1.orig[o].pos) = c1.m

\* C2: when the call raises after static objects were tiled, every tiled
\* object is back at its original length-1 path.
C2_RestoredOnError ==
    (c1.pc = "raised" /\ c1.err \in {"Unrecognized", "FormulaDomain"})
        => \A o \in UserObjs : Unchanged(o)

\* C3: the common path length M is the longest path of the call's objects;
\* the call fails with a bad-input error exactly when some path is neither
\* 1 nor M long; at that error no path has been tiled, no field formula
\* has been invoked, and no path has been cut or padded.
C3_BadPathLength ==
    LET bad == \E n \in OrigLens : n # 1 /\ n # MaxOf(OrigLens)
    IN  /\ c1.m # 0 => c1.m = MaxOf(OrigLens)
        /\ (c1.pc \notin {"start", "pathcheck"} /\ c1.err # "BadShape")
              => (c1.err = "BadPath" <=> bad)
        /\ c1.err = "BadPath"
              => /\ \A o \in UserObjs : Unchanged(o)
                 /\ c1.reset_objects = <<>>
                 /\ c1.evals = <<>>
                 /\ c1.result = NoResult
        /\ \A o \in UserObjs : Len(objs[o].pos) \in {Len(c1.orig[o].pos), c1.m}

\* C3 witness: a call with paths of lengths 2 and 3 has raised.
C3_Witness ==
    /\ c1.err = "BadPath"
    /\ {2, 3} \subseteq OrigLens

\* the pixel-grid shapes of the observers as the caller passes them
ObserverShapes(obs) ==
    IF obs.form = "list" /\ \E i \in DOMAIN obs.items : obs.items[i].sensor
        THEN {IF obs.items[i].sensor THEN PixOf(obs.items[i].id).shape
              ELSE obs.items[i].arr.shape : i \in DOMAIN obs.items}
    ELSE {<<>>}

\* C4: when the sensors of the call (bare positions wrapped as sensors
\* included) do not all have the same pixel-grid shape, the call raises
\* before any path is tiled and before any field formula is invoked, and
\* every source and sensor is left unchanged.
C4_BadShape ==
    LET mixed == Cardinality(ObserverShapes(c1.observers)) > 1
    IN  /\ c1.pc # "start" => (mixed <=> c1.err = "BadShape")
        /\ c1.err = "BadShape"
              => /\ c1.pc = "raised"
                 /\ \A o \in UserObjs : Unchanged(o)
                 /\ c1.m = 0
                 /\ c1.reset_objects = <<>>
                 /\ c1.evals = <<>>
                 /\ c1.result = NoResult

\* C4 witness: a Sensor with a (1,2,3) grid and a bare position were
\* passed together, one of the call's objects has a path, and the call
\* has raised.
C4_Witness ==
    /\ c1.err = "BadShape"
    /\ \E i \in DOMAIN c1.observers.items : ~c1.observers.items[i].sensor
    /\ \E o \in Participants(c1) : Len(c1.orig[o].pos) > 1

\* C5: a flattened source of no recognized family makes the call raise
\* during grouping: the evaluator is invoked for no family group of the
\* call and no result, partial or whole, is returned.
C5_Unrecognized ==
    LET unrec == \E i \in DOMAIN c1.src_list :
                    objs[c1.src_list[i]].kind \notin SeqRange(Families)
    IN  /\ c1.err = "Unrecognized" <=> (unrec /\ c1.pc \notin {"start", "pathcheck",
                                            "tile", "observe", "group"}
                                         /\ c1.err \notin {"BadShape", "BadPath"})
        /\ unrec => /\ c1.evals = <<>>
                    /\ c1.B = <<>>
                    /\ c1.result = NoResult
                    /\ c1.pc \notin {"eval", "colsum", "rotate", "final", "reset", "done"}

\* C5 witness: the second of two flattened sources is of no family and
\* the call has raised.
C5_Witness ==
    /\ c1.err = "Unrecognized"
    /\ Len(c1.src_list) > 1
    /\ objs[c1.src_list[1]].kind \in SeqRange(Families)

\* the scene as it was when the call was entered
Heap0 ==
    [o \in AllIds |->
        IF o \in UserObjs
            THEN [objs[o] EXCEPT !.pos = c1.orig[o].pos, !.rot = c1.orig[o].rot]
        ELSE FreeObj]

\* the field of source s alone for the observers of the call, at flat index
\* x of a call with m path steps and n positions per step (a result over
\* one path step is the same at every step)
AloneAt(s, x) ==
    LET g == GetB(Heap0, <<Elem(s)>>, c1.observers)
    IN  IF g.m = c1.m THEN g.B[1][x] ELSE g.B[1][((x - 1) % c1.n) + 1]

\* C6: the field returned for Collection(s1, ..., sk) is, at every path
\* step, sensor and pixel, the sum of the fields returned for each si alone
\* with the same observers.
C6_CollectionIsSum ==
    (/\ c1.pc \in {"reset", "done"}
     /\ Len(c1.sources.items) = 1
     /\ c1.sources.items[1].col)
        => LET ids == c1.sources.items[1].ids
           IN  /\ Len(c1.result.data) = c1.m * c1.n
               /\ \A x \in 1..(c1.m * c1.n) :
                     c1.result.data[x] =
                         SumVecs([i \in DOMAIN ids |-> AloneAt(ids[i], x)])

\* C6 witness: the field of a Collection of three sources of two families
\* was returned for a rotating sensor on a path.
C6_Witness ==
    /\ c1.pc = "done"
    /\ Len(c1.sources.items) = 1
    /\ c1.sources.items[1].col
    /\ Len(c1.sources.items[1].ids) = 3
    /\ c1.m > 1
    /\ \E i \in DOMAIN c1.sensors : ~c1.static_sensor_rot[i]

\* the rows of the flattened tensor that belong to top-level entry i
EntryOffset(items, i) == FlatLen(SubSeq(items, 1, i - 1))

\* C7: after the collection-summation step the tensor has one row per
\* top-level entry, in top-level order: the sum of the members' rows for a
\* Collection (whatever its member count), the unchanged row for an
\* elementary source.  Stated of the calls that return.
C7_RowPerEntry ==
    c1.pc = "done"
        => LET items == c1.sources.items
           IN  /\ Len(c1.Bsummed) = Len(items)
               /\ \A i \in DOMAIN items :
                     c1.Bsummed[i] =
                         SumRows(c1.Bworld, EntryOffset(items, i) + 1,
                                 EntryOffset(items, i) + Len(items[i].ids),
                                 c1.m * c1.n)

\* the field of flattened source j (counted from 1) at flat index x,
\* straight from the source's state and the observer position
FieldOfSource(j, x) ==
    LET s == c1.src_list[j]
        step == (x - 1) \div c1.n + 1
    IN  Level1Row(objs[s].kind,
                  [exc |-> ExcOf(s), dim |-> objs[s].dim, pos |-> objs[s].pos[step],
                   rot |-> objs[s].rot[step], pos_obs |-> c1.poso[x]])

\* C8: after grouping and dispatch the per-family index lists partition
\* 0..L-1, every row of the preallocated tensor has been written exactly
\* once, and row j holds the field of flattened source j.
C8_ScatterRestoresOrder ==
    c1.pc = "colsum"
        => LET L == Len(c1.src_list)
           IN  /\ Len(c1.B) = L
               /\ \A j \in 0..(L - 1) :
                     Cardinality({<<f, i>> \in (1..4) \X (1..L) :
                                     i <= Len(c1.order[f]) /\ c1.order[f][i] = j}) = 1
               /\ \A f \in 1..4 : \A i \in DOMAIN c1.order[f] :
                     c1.order[f][i] \in 0..(L - 1)
               /\ \A j \in 1..L :
                     /\ c1.writes[j] = 1
                     /\ \A x \in 1..(c1.m * c1.n) : c1.B[j][x] = FieldOfSource(j, x)

\* C8 witness: three flattened sources, a Dipole before a Box, and one
\* family group holding the first and the last of them.
C8_Witness ==
    /\ c1.pc = "colsum"
    /\ c1.order[4] = <<0, 2>>
    /\ c1.order[1] = <<1>>
    /\ c1.m > 1

RECURSIVE WithoutOnes(_)
WithoutOnes(sh) ==
    IF sh = <<>> THEN <<>>
    ELSE IF Head(sh) = 1 THEN WithoutOnes(Tail(sh))
    ELSE <<Head(sh)>> \o WithoutOnes(Tail(sh))

\* the number of sensors and the pixel grid the caller's observers stand for
ExpectedK(obs) ==
    IF obs.form = "list" /\ \E i \in DOMAIN obs.items : obs.items[i].sensor
        THEN Len(obs.items)
    ELSE 1

ExpectedPixShape(obs) ==
    IF obs.items[1].sensor THEN PixOf(obs.items[1].id).shape
    ELSE IF obs.form = "array" \/ \E i \in DOMAIN obs.items : obs.items[i].sensor
        THEN obs.items[1].arr.shape
    ELSE <<Len(obs.items)>> \o obs.items[1].arr.shape

\* C9: for L top-level sources, M path steps and K sensors of pixel shape
\* (N1,N2,3) the result has shape (L,M,K,N1,N2,3); with sumup the source
\* axis is summed away; with squeeze every axis of size 1 is removed, so
\* L = M = K = N1 = N2 = 1 gives a bare 3-vector.
C9_ResultShape ==
    c1.pc \in {"reset", "done"}
        => LET full == <<Len(c1.sources.items), MaxOf(OrigLens),
                         ExpectedK(c1.observers)>>
                           \o ExpectedPixShape(c1.observers) \o <<3>>
               sh == c1.result.shape
           IN  /\ (~c1.sumup /\ ~c1.squeeze) => sh = full
               /\ (c1.sumup /\ ~c1.squeeze) => sh = Tail(full)
               /\ (~c1.sumup /\ c1.squeeze) => sh = WithoutOnes(full)
               /\ (c1.sumup /\ c1.squeeze) => sh = WithoutOnes(Tail(full))
               /\ (c1.squeeze /\ full = <<1, 1, 1, 1, 1, 3>>) => sh = <<3>>
               /\ 3 * Len(c1.result.data) = Prod(sh)

\* C9 witness: one source, one path step, one sensor with one pixel in a
\* (1,1,3) grid, squeezed to a bare 3-vector.
C9_Witness ==
    /\ c1.pc = "done"
    /\ c1.squeeze
    /\ ~c1.sumup
    /\ c1.pix_shape = <<1, 1>>
    /\ Len(c1.sources.items) = 1
    /\ c1.m = 1
    /\ c1.result.shape = <<3>>

\* the orientation of the sensor that flat index x belongs to, at the path
\* step of x
SensorRotAt(x) ==
    objs[c1.sensors[((x - 1) % c1.n) \div Prod(ExpectedPixShape(c1.observers)) + 1]]
        .rot[(x - 1) \div c1.n + 1]

\* C10: the members of a Collection are summed before the rotation into a
\* sensor's frame, and the rotation is applied exactly once to each
\* (top-level entry, path step, pixel) value, never once per member and
\* never twice: with a rotated sensor, the value of a top-level entry is
\* the inverse sensor orientation applied to the sum of its members'
\* world-frame fields.
C10_SumThenRotateOnce ==
    (/\ c1.pc = "reset"
     /\ \E i \in DOMAIN c1.sensors : \E j \in 1..c1.m :
           objs[c1.sensors[i]].rot[j] # unitQ)
        => LET items == c1.sources.items
           IN  /\ Len(c1.B) = Len(items)
               /\ \A i \in DOMAIN items : \A x \in 1..(c1.m * c1.n) :
                     c1.B[i][x] =
                         RotApply(RotInv(SensorRotAt(x)),
                                  SumRows(c1.Bworld, EntryOffset(items, i) + 1,
                                          EntryOffset(items, i) + Len(items[i].ids),
                                          c1.m * c1.n)[x])

\* the Sensor objects the caller passes among the observers
UserSensors(obs) ==
    SelectSeq([i \in DOMAIN obs.items |-> obs.items[i].id], LAMBDA k : k # "")

\* C11: the returned field is, for every sensor, path step and row, the
\* inverse of the sensor's orientation at that step applied to the
\* world-frame field at the sensor's pixels, whichever of the three
\* branches (skipped, batched with the first orientation, per step) the
\* flags select; a sensor with identity orientation reads the world-frame
\* field itself.
C11_RotationBranches ==
    (c1.pc = "reset" /\ ~c1.sumup)
        => \A r \in DOMAIN c1.Bsummed : \A x \in 1..(c1.m * c1.n) :
              LET got == c1.result.data[(r - 1) * c1.m * c1.n + x]
              IN  /\ got = RotApply(RotInv(SensorRotAt(x)), c1.Bsummed[r][x])
                  /\ SensorRotAt(x) = unitQ => got = c1.Bsummed[r][x]

\* C11 witness: a result for two rotated sensors on a path, the first
\* changing its orientation along the path (per-step branch), the second
\* keeping it (batched branch), with a field the rotation changes.
C11_Witness ==
    /\ c1.pc = "reset"
    /\ ~c1.sumup
    /\ c1.m > 1
    /\ c1.unrotated_sensors = <<FALSE, FALSE>>
    /\ c1.static_sensor_rot = <<FALSE, TRUE>>
    /\ c1.B # c1.Bsummed

\* the scene of the call with the one path entry of object o repeated to
\* length M by the caller
Heap0Tiled(o, M) ==
    [Heap0 EXCEPT ![o].pos = Rep(Heap0[o].pos[1], M),
                  ![o].rot = Rep(Heap0[o].rot[1], M)]

\* the lengths M to which the caller can tile object o and call again
\* with the same other arguments
TileLengths(o) ==
    {M \in 1..MaxPath :
        get_good_path_length(Heap0Tiled(o, M),
                             c1.src_list \o UserSensors(c1.observers)) # -1}

\* C12: a call on an object with path length 1 gives, at every path step,
\* the field of the call made after the caller has tiled that object's
\* single (position, orientation) entry to length M, the other arguments
\* being the same.
C12_TilingIdempotent ==
    c1.pc = "final"
        => \A o \in Participants(c1) :
              Len(c1.orig[o].pos) = 1
                  => \A M \in TileLengths(o) :
                        LET g == GetB(Heap0Tiled(o, M), c1.sources.items, c1.observers)
                        IN  /\ g.n = c1.n
                            /\ g.m = (IF c1.m > 1 THEN c1.m ELSE M)
                            /\ Len(g.B) = Len(c1.B)
                            /\ \A r \in DOMAIN c1.B : \A x \in 1..(g.m * g.n) :
                                  g.B[r][x] =
                                      c1.B[r][IF c1.m = g.m THEN x
                                              ELSE ((x - 1) % c1.n) + 1]

\* C12 witness: a rotated static source was tiled to the length of a moving
\* sensor's path, and the caller could have tiled it to that length.
C12_Witness ==
    /\ c1.pc = "final"
    /\ c1.m > 1
    /\ "s1" \in Participants(c1)
    /\ Len(c1.orig["s1"].pos) = 1
    /\ c1.m \in TileLengths("s1")
    /\ \E i \in DOMAIN c1.sensors : ~c1.static_sensor_rot[i]

\* the scene before the caller turned any sensor
BaseHeap ==
    [o \in AllIds |->
        IF o \in UserObjs
            THEN [objs[o] EXCEPT !.pos = c1.base[o].pos, !.rot = c1.base[o].rot]
        ELSE FreeObj]

\* the caller rotated one Sensor by a rotation and then by its inverse
RoundTrip ==
    /\ Len(c1.turns) = 2
    /\ c1.turns[1].k = c1.turns[2].k
    /\ c1.turns[2].q = RotInv(c1.turns[1].q)

UsesAsLong(p, o) ==
    /\ call[p].pc \in {"observe", "group", "eval"}
    /\ call[p].m > 1
    /\ o \in SeqRange(call[p].src_list)

\* call q tiled object o and has rolled it back to length 1 while call p
\* still uses it as a path of length m
Race(p, q, o) ==
    /\ p # q
    /\ UsesAsLong(p, o)
    /\ Len(objs[o].pos) = 1
    /\ call[q].pc = "done"
    /\ o \in SeqRange(call[q].reset_objects)

\* C14: when two calls that share a path-length-1 object are interleaved,
\* one call's tiling and the other's rollback race: some interleaving
\* reaches a state in which one call has reset the shared object to
\* length 1 while the other still uses it as a path of length M
\* (C14_Witness), and a call finds an object of its own off its length M
\* only through the other call's tiling or rollback of that object.
C14_RaceOnlyThroughOtherCall ==
    \A p \in Procs : \A o \in Src :
        (UsesAsLong(p, o) /\ Len(objs[o].pos) # call[p].m)
            => \E q \in Procs \ {p} : o \in SeqRange(call[q].reset_objects)

\* C14 witness: the race itself.
C14_Witness == \E p \in Procs, q \in Procs, o \in Src : Race(p, q, o)

\* the world positions of the pixels of one element of the observers
\* argument at path step j: a Sensor's pixels turned and displaced as the
\* Sensor is, a bare position array as it stands
ItemPts(it, j) ==
    IF it.sensor
        THEN [q \in DOMAIN PixOf(it.id).pts |->
                 VAdd(RotApply(objs[it.id].rot[j], PixOf(it.id).pts[q]),
                      objs[it.id].pos[j])]
    ELSE it.arr.pts

\* C20: a bare position array, or a list with no Sensor in it, is one
\* Sensor whose pixel grid is the whole input (K = 1); a list with at least
\* one Sensor in it is taken element by element, every element that is not
\* a Sensor becoming a Sensor of its own, so that K is the length of the
\* list; the observer positions, and with them the sensor axis of the
\* result, follow the order of the list.
C20_ObserverWrapping ==
    LET obs == c1.observers
        items == obs.items
        sens == c1.sensors
        mixed == obs.form = "list" /\ \E i \in DOMAIN items : items[i].sensor
        whole == obs.form = "array"
                    \/ (obs.form = "list" /\ \A i \in DOMAIN items : ~items[i].sensor)
    IN  /\ (c1.pc \notin {"idle", "start"} /\ whole)
              => (/\ Len(sens) = 1
                  /\ sens[1] \notin Sens
                  /\ objs[sens[1]].kind = "Sensor"
                  /\ objs[sens[1]].pix =
                        IF obs.form = "array" THEN items[1].arr ELSE StackArr(items))
        /\ (c1.pc \notin {"idle", "start"} /\ mixed)
              => (/\ Len(sens) = Len(items)
                  /\ \A i \in DOMAIN items :
                        IF items[i].sensor THEN sens[i] = items[i].id
                        ELSE /\ sens[i] \notin Sens
                             /\ objs[sens[i]].kind = "Sensor"
                             /\ objs[sens[i]].pix = items[i].arr
                             /\ \A j \in DOMAIN items : j # i => sens[j] # sens[i])
        /\ (c1.pc \in {"group", "eval", "colsum", "rotate", "final", "reset"})
              => (/\ c1.poso =
                        Concat([j \in 1..c1.m |->
                            Concat([i \in DOMAIN items |-> ItemPts(items[i], j)])])
                  /\ c1.n * c1.m = Len(c1.poso))
        /\ (c1.pc \in {"reset", "done"} /\ ~c1.squeeze /\ (whole \/ mixed))
              => (c1.result.shape[IF c1.sumup THEN 2 ELSE 3] =
                      IF whole THEN 1 ELSE Len(items))

\* C20 witness: a call with a list of a Sensor followed by a bare (1,2,3)
\* array has returned a result with K = 2.
C20_Witness ==
    /\ c1.pc = "done"
    /\ ~c1.squeeze
    /\ c1.observers.form = "list"
    /\ c1.observers.items[1].sensor
    /\ ~c1.observers.items[2].sensor
    /\ Len(c1.sensors) = 2
    /\ c1.m > 1

\* the other case of C20: a list of two bare positions was taken as one
\* pixel grid of shape (2,3)
C20_WholeList ==
    /\ c1.pc = "done"
    /\ c1.observers.form = "list"
    /\ \A i \in DOMAIN c1.observers.items : ~c1.observers.items[i].sensor
    /\ c1.pix_shape = <<2>>

\* the flat index (counted from 1) of pixel q of sensor i at path step j
\* on the observer axes of B, with i, j and q counted from 1
FlatIndex(j, i, q) == (j - 1) * c1.n + (i - 1) * Prod(c1.pix_shape) + q

\* the world position of pixel q of sensor i at path step j
PixelWorld(j, i, q) ==
    LET sens == objs[c1.sensors[i]]
    IN  VAdd(RotApply(sens.rot[j], sens.pix.pts[q]), sens.pos[j])

\* C21: the flattened observer positions are ordered path step first, then
\* sensor, then pixel: at every path step the k_pixel indices from
\* i*k_pixel on hold sensor i's pixels in pixel order.  The field rows, the
\* back-rotation slices and the final reshape to (K, pixel dims) therefore
\* give every value to the sensor, pixel and path step whose world position
\* produced it.
C21_ObserverAxisOrder ==
    (c1.pc = "reset" /\ ~c1.sumup)
        => LET k_pixel == Prod(c1.pix_shape)
               K == Len(c1.sensors)
           IN  /\ c1.n = K * k_pixel
               /\ Len(c1.poso) = c1.m * c1.n
               /\ \A j \in 1..c1.m : \A i \in 1..K : \A q \in 1..k_pixel :
                     LET x == FlatIndex(j, i, q)
                     IN  /\ (x - 1) % c1.n \in ((i - 1) * k_pixel)..(i * k_pixel - 1)
                         /\ c1.poso[x] = PixelWorld(j, i, q)
                         /\ \A s \in DOMAIN c1.src_list :
                               c1.Bworld[s][x] =
                                   Level1Row(objs[c1.src_list[s]].kind,
                                       [exc |-> ExcOf(c1.src_list[s]),
                                        dim |-> objs[c1.src_list[s]].dim,
                                        pos |-> objs[c1.src_list[s]].pos[j],
                                        rot |-> objs[c1.src_list[s]].rot[j],
                                        pos_obs |-> PixelWorld(j, i, q)])
                         /\ \A r \in DOMAIN c1.Bsummed :
                               c1.result.data[(r - 1) * c1.m * c1.n + x] =
                                   RotApply(RotInv(objs[c1.sensors[i]].rot[j]),
                                            c1.Bsummed[r][x])
               /\ ~c1.squeeze
                     => c1.result.shape
                            = <<Len(c1.Bsummed), c1.m, K>> \o c1.pix_shape \o <<3>>

\* C21 witness: a result for two sensors of two pixels each on a path of
\* more than one step, one of the sensors turned.
C21_Witness ==
    /\ c1.pc = "reset"
    /\ ~c1.sumup
    /\ c1.m > 1
    /\ Len(c1.sensors) = 2
    /\ Prod(c1.pix_shape) = 2
    /\ c1.unrotated_sensors[2] = FALSE
    /\ Len(c1.src_list) > 1

\* the sources of family f (counted from 1) in the order of src_sorted[f-1]
GroupOf(f) == [i \in DOMAIN c1.order[f] |-> c1.src_list[c1.order[f][i] + 1]]

\* what row (g*M + step)*n + obs of a group's parameter arrays has to
\* carry, with g, step and obs counted from 0
MemberRow(group, g, step, obs) ==
    [exc |-> ExcOf(group[g + 1]),
     dim |-> objs[group[g + 1]].dim,
     pos |-> objs[group[g + 1]].pos[step + 1],
     rot |-> from_quat(as_quat(objs[group[g + 1]].rot[step + 1])),
     pos_obs |-> c1.poso[step * c1.n + obs + 1]]

\* C22: in the parameter arrays of a family group of G sources, row
\* (g*M + step)*n + obs carries the excitation and geometry of member g,
\* that member's position and orientation at path step step, and observer
\* position obs of the same path step; the evaluator's output reshaped to
\* (G, M, n, 3) is therefore indexed by (member, path step, observer).
C22_GroupRowLayout ==
    c1.pc \in {"eval", "colsum"}
        => \A f \in 1..c1.iii :
              LET group == GroupOf(f)
                  G == Len(group)
                  rows == scr_dict(objs, group, c1.poso)
              IN  G > 0
                    => /\ Len(rows) = G * c1.m * c1.n
                       /\ \A g \in 0..(G - 1) : \A step \in 0..(c1.m - 1) :
                          \A obs \in 0..(c1.n - 1) :
                             /\ rows[(g * c1.m + step) * c1.n + obs + 1]
                                   = MemberRow(group, g, step, obs)
                             /\ c1.Bworld[c1.order[f][g + 1] + 1][step * c1.n + obs + 1]
                                   = Level1Row(Families[f],
                                               MemberRow(group, g, step, obs))

\* C22 witness: the block of a family with two sources that move and turn
\* along a path of more than one step has run for more than one observer
\* position.
C22_Witness ==
    /\ c1.pc \in {"eval", "colsum"}
    /\ c1.m > 1
    /\ c1.n > 1
    /\ \E f \in 1..c1.iii :
          /\ Len(c1.order[f]) = 2
          /\ \A g \in 1..2 : objs[GroupOf(f)[g]].pos[1] # objs[GroupOf(f)[g]].pos[2]
          /\ \E g \in 1..2 : objs[GroupOf(f)[g]].rot[1] # objs[GroupOf(f)[g]].rot[2]

\* the number of rows handed to the evaluator by the invocations evals
RECURSIVE RowsOf(_)
RowsOf(evals) ==
    IF evals = <<>> THEN 0 ELSE Head(evals).rows + RowsOf(Tail(evals))

\* C23: in one call the field-formula evaluator is invoked exactly once
\* for each family that has at least one source and never for a family
\* with none; each invocation covers all sources of its family over all M
\* path steps and all n observer positions, so the rows of all invocations
\* total L*M*n.  A call that an invocation aborts has made no second
\* invocation for any family either.
C23_OneCallPerFamily ==
    /\ \A a, b \in DOMAIN c1.evals :
          c1.evals[a].family = c1.evals[b].family => a = b
    /\ c1.pc \in {"eval", "colsum", "rotate", "final", "reset", "done"}
          => /\ \A f \in 1..4 :
                   LET calls == {a \in DOMAIN c1.evals : c1.evals[a].family = Families[f]}
                   IN  IF f <= c1.iii /\ c1.order[f] # <<>>
                           THEN /\ Cardinality(calls) = 1
                                /\ \A a \in calls :
                                      c1.evals[a].rows = Len(c1.order[f]) * c1.m * c1.n
                       ELSE calls = {}
             /\ c1.iii = 4 => RowsOf(c1.evals) = Len(c1.src_list) * c1.m * c1.n

\* C23 witness: a call with three sources of two families on a path of
\* more than one step has run all four blocks with two invocations.
C23_Witness ==
    /\ c1.pc = "colsum"
    /\ Len(c1.evals) = 2
    /\ Len(c1.src_list) = 3
    /\ c1.m > 1
    /\ c1.n > 1

\* the orientation of a magnet as a scipy Rotation: the quaternion of the
\* rotation by angle (a multiple of 90 degrees) about the unit vector axis
QuatOf(angle, axis) ==
    IF angle % 360 = 0 THEN unitQ
    ELSE IF angle % 360 = 90 THEN <<axis[1], axis[2], axis[3], 1>>
    ELSE IF angle % 360 = 180 THEN <<axis[1], axis[2], axis[3], 0>>
    ELSE <<-axis[1], -axis[2], -axis[3], 1>>

\* C24: Cube.getB, Cylinder.getB and Sphere.getB evaluate the field formula
\* at the observer position minus the source position, turned by the
\* inverse of the source orientation (same angle, negated axis), and turn
\* the resulting field vector by the forward orientation; getB leaves the
\* position, angle, axis, magnetization and dimension of the source as
\* they were.
C24_GetBFrames ==
    mag.pc = "done"
        => LET q == QuatOf(mag.angle, mag.axis)
               inFrame == RotApply(RotInv(q), VSub(mag.pos, mag.position))
           IN  /\ angleAxisRotation(mag.angle, mag.axis, inFrame)
                     = VSub(mag.pos, mag.position)
               /\ mag.B = RotApply(q, FieldFormula(mag.kind, mag.magnetization,
                                                   mag.dimension, inFrame))
               /\ mag.B = Level1Row(mag.kind,
                              [exc |-> mag.magnetization, dim |-> mag.dimension,
                               pos |-> mag.position, rot |-> q, pos_obs |-> mag.pos])
               /\ [kind |-> mag.kind, position |-> mag.position,
                   angle |-> mag.angle, axis |-> mag.axis,
                   magnetization |-> mag.magnetization,
                   dimension |-> mag.dimension] = mag.made

\* C24 witness: getB of a displaced magnet turned by 90 degrees, at a point
\* the rotation moves, with a field the rotation changes.
C24_Witness ==
    /\ mag.pc = "done"
    /\ mag.angle = 90
    /\ mag.position # Zero3
    /\ angleAxisRotation(mag.angle, mag.axis, VSub(mag.pos, mag.position))
          # VSub(mag.pos, mag.position)
    /\ mag.B # FieldFormula(mag.kind, mag.magnetization, mag.dimension,
                            VSub(mag.pos, mag.position))

\* C28: whenever the flattened source count l equals the number l0 of
\* top-level entries (the test l > l0 is false and the summation over
\* Collections is skipped), every top-level entry is exactly one flattened
\* source at the same index, so that the dense tensor is indexed by
\* top-level entry as it stands and the reshape to (l0, M, ...) is valid.
C28_EqualCountsMeanOneToOne ==
    (/\ c1.pc \in {"rotate", "final", "reset", "done"}
     /\ Len(c1.src_list) = Len(c1.sources.items))
        => /\ \A i \in DOMAIN c1.sources.items :
                 c1.sources.items[i].ids = <<c1.src_list[i]>>
           /\ c1.Bsummed = c1.Bworld
           /\ \A i \in DOMAIN c1.sources.items :
                 c1.Bsummed[i] =
                     SumRows(c1.Bworld, EntryOffset(c1.sources.items, i) + 1,
                             EntryOffset(c1.sources.items, i)
                                 + Len(c1.sources.items[i].ids),
                             c1.m * c1.n)

\* the positions of obj_list at which object o occurs
Occurrences(o) == {i \in DOMAIN obj_list(c1) : obj_list(c1)[i] = o}

\* C30: an object with a path of length 1 that occurs several times among
\* the participating objects (directly or through Collections) is recorded
\* exactly once in reset_objects and tiled exactly once to length M, and
\* after the call its path is its original length-1 path.
C30_TiledOnce ==
    /\ (c1.pc \in Running \cup {"done"} /\ c1.m > 1)
          => /\ \A i, j \in DOMAIN c1.reset_objects :
                   c1.reset_objects[i] = c1.reset_objects[j] => i = j
             /\ \A o \in UserObjs :
                   o \in SeqRange(c1.reset_objects)
                       <=> (Occurrences(o) # {} /\ Len(c1.orig[o].pos) = 1)
    /\ \A o \in UserObjs :
          (c1.pc \in Running /\ c1.m > 1 /\ Cardinality(Occurrences(o)) > 1
                /\ Len(c1.orig[o].pos) = 1)
              => objs[o].pos = Rep(c1.orig[o].pos[1], c1.m)
    /\ \A o \in UserObjs :
          (c1.pc = "done" /\ Cardinality(Occurrences(o)) > 1) => Unchanged(o)

\* C30 witness: a call with M > 1 has returned in which a static source
\* occurred twice, once directly and once through a Collection.
C30_Witness ==
    /\ c1.pc = "done"
    /\ c1.m > 1
    /\ \E o \in Src :
          /\ Cardinality(Occurrences(o)) > 1
          /\ o \in SeqRange(c1.reset_objects)
          /\ \E e \in SeqRange(c1.sources.items) : Len(e.ids) > 1 /\ o \in SeqRange(e.ids)

\* ------------------------------------------------- claims on the display
\* a step that leaves a show_context block
ExitStep == Len(disp'.blocks) < Len(disp.blocks)

\* a step that is a call of show
ShowStep == disp'.ops = disp.ops + 1 /\ disp'.ret.op = "show"

\* C25: when a show_context block exits, at the end of its body, because
\* the body raised, or because the final render raised, the display context
\* is reset: isrunning is False and objects, objects_from_ctx and kwargs
\* are empty; a later show() outside any block renders at once, with its
\* own arguments only.
C25_ContextResetOnExit ==
    [][/\ ExitStep
             => /\ ~disp'.ctx.isrunning
                /\ disp'.ctx.objects = <<>>
                /\ disp'.ctx.objects_from_ctx = <<>>
                /\ disp'.ctx.kwargs = NoKwargs
       /\ (ShowStep /\ disp.blocks = <<>>)
             => /\ disp'.ctx = disp.ctx
                /\ disp'.ctx = NoDisp.ctx
                /\ IF disp'.ret.raised THEN disp'.renders = disp.renders
                   ELSE disp'.renders =
                          Append(disp.renders,
                                 [objects |-> process_show_input_objs(
                                                  disp'.last.objects, disp'.last.rco),
                                  kwargs |-> disp'.last.kwargs])]_vars

\* C25 witness: a block was left because its final render raised, and the
\* context is empty.
C25_Witness ==
    /\ disp.ret.op = "exit"
    /\ disp.ret.raised
    /\ ~disp.last.bodyRaised
    /\ disp.blocks = <<>>
    /\ disp.ops >= 2
    /\ disp.ctx = NoDisp.ctx

\* C26: while a show_context block is running, a show() call renders
\* nothing and returns None; it only appends its objects, combined with
\* the context's objects, and merges its keywords into the context.
\* Exactly one render happens, at the normal exit of the block, with the
\* objects accumulated in call order; no render happens if the body
\* raises.
C26_DeferredRender ==
    [][/\ (ShowStep /\ disp.blocks # <<>>)
             => /\ disp'.renders = disp.renders
                /\ ~disp'.ret.raised
                      => /\ disp'.ret.val = "None"
                         /\ disp'.ctx.objects =
                               disp.ctx.objects \o process_show_input_objs(
                                   disp.ctx.objects_from_ctx \o disp'.last.objects,
                                   disp'.last.rco)
                         /\ disp'.ctx.kwargs = Update(disp.ctx.kwargs, disp'.last.kwargs)
       /\ (ExitStep /\ ~disp'.ret.raised)
             => /\ Len(disp'.renders) = Len(disp.renders) + 1
                /\ disp'.renders[Len(disp'.renders)].objects
                      = disp.blocks[Len(disp.blocks)].shown
       /\ (ExitStep /\ disp'.ret.raised)
             => disp'.renders = disp.renders]_vars

\* C27: ctx.isrunning is True throughout the body of every show_context
\* block, the rest of an outer block after a nested block has exited
\* included, so that every show() call in a body is deferred and what the
\* outer block has collected is still there to be rendered at its exit.
C27_RunningInBody ==
    disp.blocks # <<>>
        => /\ disp.ctx.isrunning
           /\ \A b \in DOMAIN disp.blocks : \A i \in DOMAIN disp.blocks[b].shown :
                 \E x \in DOMAIN disp.ctx.objects :
                    disp.ctx.objects[x] = disp.blocks[b].shown[i]

\* ------------------------------------------------- claims on Collection
Built == {c \in ColIds : cols.ref[c] # 0}

NoRepeat(l) == \A i \in DOMAIN l : \A j \in DOMAIN l : i # j => l[i] # l[j]

\* the sources an argument tuple of the last operation stood for: those of
\* a Collection are the ones it had when the operation began
ArgSources(args) ==
    UNION { IF args[i].k = "src" THEN {args[i].v}
            ELSE IF args[i].k = "list" THEN SeqRange(args[i].l)
            ELSE IF args[i].v = cols.ret.c THEN SeqRange(cols.ret.before)
            ELSE SeqRange(Sources(cols, args[i].v)) : i \in DOMAIN args }

\* C15: after construction and after any sequence of add, remove, +, - and
\* assignments to sources, no source appears more than once in
\* Collection.sources, every entry is a source, and a Collection given as
\* input is present through its member sources only.
C15_NoDuplicates ==
    /\ \A c \in Built :
          /\ NoRepeat(Sources(cols, c))
          /\ SeqRange(Sources(cols, c)) \subseteq Src
    /\ cols.ret.op \in {"init", "set", "add", "plus"}
          => ArgSources(cols.ret.args) \subseteq SeqRange(Sources(cols, cols.ret.c))

\* C15 witness: a Collection and a source that both were members already
\* were added to a Collection.
C15_Witness ==
    /\ cols.ret.op = "add"
    /\ cols.ret.args = <<ColArg("cB"), SrcArg("s1")>>
    /\ cols.ret.c = "cA"
    /\ "s1" \in SeqRange(cols.ret.before)
    /\ SeqRange(Sources(cols, "cB")) \cap SeqRange(cols.ret.before) # {}
    /\ SeqRange(Sources(cols, "cB")) \ SeqRange(cols.ret.before) # {}

\* C16: add keeps the sources already in the Collection in their order,
\* places the newly added ones after them, and does not add a source that
\* is a member already.
C16_AddAppends ==
    cols.ret.op = "add"
        => LET after == Sources(cols, cols.ret.c)
               n0 == Len(cols.ret.before)
           IN  /\ Len(after) >= n0
               /\ SubSeq(after, 1, n0) = cols.ret.before
               /\ \A i \in (n0 + 1)..Len(after) :
                     /\ after[i] \notin SeqRange(cols.ret.before)
                     /\ after[i] \in ArgSources(cols.ret.args)
               /\ ArgSources(cols.ret.args) \subseteq SeqRange(after)
               /\ NoRepeat(after)

\* C16 witness: add was called on a Collection of two sources with a
\* member and a new source, and the new source is the third.
C16_Witness ==
    /\ cols.ret.op = "add"
    /\ Len(cols.ret.before) = 2
    /\ ArgSources(cols.ret.args) \cap SeqRange(cols.ret.before) # {}
    /\ Len(Sources(cols, cols.ret.c)) = 3

Transforms == {"move_by", "rotate", "rotate_from_angax"}

\* C17: move_by, rotate and rotate_from_angax on a Collection call the
\* same method with the same arguments exactly once on every member, in
\* sources order, and on no other object: every member's path is the one
\* that call gives, every other object's path is unchanged, and the
\* Collection itself is returned.
C17_TransformEveryMember ==
    /\ [](cols.ret.op \in Transforms
            => /\ cols.log = [i \in DOMAIN cols.ret.before |->
                                 [obj |-> cols.ret.before[i], method |-> cols.ret.op,
                                  args |-> cols.ret.args]]
               /\ cols.ret.val = cols.ret.c)
    /\ [][(cols'.ret.op \in Transforms /\ cols'.moves # cols.moves)
            => /\ cols'.ret.before = Sources(cols, cols'.ret.c)
               /\ \A o \in AllIds :
                     objs'[o] = IF o \in SeqRange(cols'.ret.before)
                                   THEN MemberCall(objs[o], cols'.ret.op, cols'.ret.args)
                                ELSE objs[o]]_vars

\* C17 witness: a Collection of two sources was rotated about an anchor
\* while the third source is in no Collection or in the other one.
C17_Witness ==
    /\ cols.ret.op = "rotate"
    /\ Len(cols.log) = 2
    /\ Len(cols.ret.before) = 2

\* C18: a source can be a member of several Collections at once; add,
\* remove, + and - on one Collection (which return that Collection) never
\* change the sources of another Collection.
C18_OtherCollectionsUnchanged ==
    [][cols'.ret.op \in {"add", "plus", "remove", "minus"}
          => /\ ~cols'.ret.raised => cols'.ret.val = cols'.ret.c
             /\ \A c \in Built \ {cols'.ret.c} :
                   /\ cols'.ref[c] # 0
                   /\ Sources(cols', c) = Sources(cols, c)]_vars

\* C18 witness: a source that is a member of both Collections was removed
\* from one and is still a member of the other.
C18_Witness ==
    /\ cols.ret.op \in {"remove", "minus"}
    /\ ~cols.ret.raised
    /\ Built = ColIds
    /\ \E c \in ColIds \ {cols.ret.c} :
          cols.ret.args[1].v \in SeqRange(Sources(cols, c))
    /\ cols.ret.args[1].v \notin SeqRange(Sources(cols, cols.ret.c))

\* C29: after col2 = col.copy(), add and remove applied to col2 leave
\* col.sources unchanged and add and remove applied to col leave
\* col2.sources unchanged, while both Collections keep referring to the
\* same member source objects.
C29_CopyIsIndependent ==
    [][/\ cols'.ret.op = "copy"
             => /\ Sources(cols', cols'.ret.val) = Sources(cols, cols'.ret.c)
                /\ Sources(cols', cols'.ret.c) = Sources(cols, cols'.ret.c)
                /\ objs' = objs
       /\ (cols'.ret.op \in {"add", "remove"} /\ Built = ColIds)
             => /\ \A c \in ColIds \ {cols'.ret.c} :
                      Sources(cols', c) = Sources(cols, c)
                /\ objs' = objs]_vars

====
